---- MODULE Spec2Model ----
(***************************************************************************)
(* The C-ABI bindings of the tokenizers library (bindings/c/src): a C      *)
(* caller thread driving the exported functions.  The state is what the    *)
(* caller can observe: the heap objects handed out behind opaque pointers, *)
(* the thread-local LAST_ERROR, and the outcome of the most recent call    *)
(* (status written through the out-parameter, returned value, buffer).     *)
(***************************************************************************)
EXTENDS Integers, Sequences, FiniteSets, TLC

\* ------------------------------------------------------------------ bounds
MaxAlloc == 3        \* heap objects handed out over one run
MaxText == 2         \* length of a text passed to encode / decode
MaxInput == 2        \* characters of a normalizer / pre-tokenizer input
MaxNew == 1          \* objects built over one run of the constructor specification
MaxLines == 2        \* lines of merges_str
MaxParts == 2        \* tokens on one line of merges_str
MaxWord == 5         \* characters of a word handed to tokenize-one-word
MaxThreads == 2      \* threads that share one engine
MaxCapacity == 2     \* entries the cache of an engine may hold

VARIABLES
    heap,        \* pointer -> object behind it (Box::into_raw / CString::into_raw)
    given,       \* pointers the library has returned to the caller
    released,    \* pointers the caller has passed to a *_free function
    lastError,   \* LAST_ERROR: Option<CString>
    call,        \* the most recent call: what was passed, written and returned
    built,       \* what the most recent model constructor handed to builder.build()
    outbuf,      \* the caller's output buffer after the most recent *_str call
    got,         \* result of tokenizers_get_last_error when it was the last call
    crashed,     \* the process died on a null dereference
    engine,      \* the BPE engine a model handle stands for: its tables and its cache
    threads      \* the tokenize-one-word call each thread is in

vars == <<heap, given, released, lastError, call, built, outbuf, got, crashed, engine, threads>>

\* ------------------------------------------------------------------ values
None == <<>>
Some(x) == <<x>>

Ok(v) == [ok |-> TRUE, v |-> v]
Err(e) == [ok |-> FALSE, v |-> e]

\* const char* arguments: a null pointer, bytes that are not UTF-8, or a string
NULL == [tag |-> "null", s |-> <<>>]
BADUTF8 == [tag |-> "bad", s |-> <<>>]
Str(s) == [tag |-> "str", s |-> s]

NullPtr == 0

RECURSIVE Concat(_)
Concat(ss) == IF ss = <<>> THEN <<>> ELSE Head(ss) \o Concat(Tail(ss))

SeqsUpTo(S, n) == UNION {[1..k -> S] : k \in 0..n}

Min(a, b) == IF a < b THEN a ELSE b

\* ------------------------------------------------------------------ lib.rs helpers

\* set_status: writes through the out-parameter unless it is null.  The result
\* is the caller's view: was anything written, and what.
set_status(statusNull, prev, value) ==
    IF statusNull THEN prev ELSE [wrote |-> TRUE, status |-> value]

NoStatus == [wrote |-> FALSE, status |-> 0]

\* set_last_error: CString::new(message).ok(); the messages of this crate hold
\* no interior NUL, so the result is Some(message).
set_last_error(message) == Some(message)

clear_last_error == None

read_utf8(ptr) ==
    IF ptr.tag = "null" THEN Err("null")
    ELSE IF ptr.tag = "bad" THEN Err("utf8")
    ELSE Ok(ptr.s)

read_optional_utf8(ptr) ==
    IF ptr.tag = "null" THEN Ok(None)
    ELSE IF read_utf8(ptr).ok THEN Ok(Some(read_utf8(ptr).v)) ELSE Err("utf8")

\* ------------------------------------------------------------------ heap

Live == DOMAIN heap

NewPtr == Cardinality(given) + 1

CanAlloc(n) == Cardinality(given) + n <= MaxAlloc

\* Box::into_raw(Box::new(v)): a fresh object owned by nobody but the caller.
\* owner: the object whose storage holds this one (freed with it); origin: the
\* object this one was copied out of.
Boxed(kind, v) == [kind |-> kind, owner |-> NullPtr, origin |-> NullPtr, val |-> v]

\* objects that live inside the object p and die with it
RECURSIVE Inside(_, _)
Inside(h, p) ==
    LET kids == {q \in DOMAIN h : h[q].owner = p}
    IN kids \cup UNION {Inside([r \in (DOMAIN h) \ {q} |-> h[r]], q) : q \in kids}

\* drop(Box::from_raw(p)): frees p and everything stored inside it
DropBox(h, p) == [q \in (DOMAIN h) \ ({p} \cup Inside(h, p)) |-> h[q]]

Alloc(h, p, obj) == [q \in (DOMAIN h) \cup {p} |-> IF q = p THEN obj ELSE h[q]]

LiveOf(kind) == {p \in Live : heap[p].kind = kind}

\* what the call leaves behind for the caller
Call(fn, nullArg, deref, st, ret, msg, arg) ==
    [fn |-> fn, nullArg |-> nullArg, deref |-> deref, wrote |-> st.wrote,
     status |-> st.status, ret |-> ret, msg |-> msg, arg |-> arg,
     input |-> NULL, outNull |-> FALSE, outLen |-> 0, need |-> 0,
     statusNull |-> FALSE]

NoBuf == [len |-> 0, bytes |-> <<>>, written |-> FALSE]
NoBuilt == [reached |-> FALSE, config |-> None]

\* a call that builds no model, fills no buffer and returns normally
Quiet == /\ ~crashed
         /\ built' = NoBuilt
         /\ outbuf' = NoBuf
         /\ got' = [asked |-> FALSE, ptr |-> None]
         /\ UNCHANGED <<crashed, engine, threads>>

HeapSame == UNCHANGED <<heap, given, released>>

\* ------------------------------------------------------------------ the Tokenizer

\* tokenizers::Tokenizer as the bindings use it: a vocabulary and the
\* truncation configuration.
ValidTokenizerJson == <<"t", "o", "k">>

InitialTokenizer ==
    [vocab |-> <<"a", "b">>, truncation |-> None]

Tokenizer_from_bytes(content) ==
    IF content = ValidTokenizerJson THEN Ok(InitialTokenizer) ELSE Err("parse")

AllTokens(t) == t.vocab

TokenId(t, tok) ==
    IF \E i \in 1..Len(AllTokens(t)) : AllTokens(t)[i] = tok
    THEN Some((CHOOSE i \in 1..Len(AllTokens(t)) : AllTokens(t)[i] = tok) - 1)
    ELSE None

IdToken(t, id) ==
    IF id + 1 \in 1..Len(AllTokens(t)) THEN Some(AllTokens(t)[id + 1]) ELSE None

RECURSIVE Chunks(_, _)
Chunks(s, n) ==
    IF Len(s) = 0 THEN <<>>
    ELSE IF Len(s) <= n THEN <<s>>
    ELSE <<SubSeq(s, 1, n)>> \o Chunks(SubSeq(s, n + 1, Len(s)), n)

PlainEncoding(ids, toks) == [ids |-> ids, tokens |-> toks, overflowing |-> <<>>]

\* Tokenizer::encode: one token per word of the input (here: per character);
\* a word outside the vocabulary is an error; with truncation enabled the part
\* beyond max_length goes to the overflowing encodings.
Tokenizer_encode(t, text) ==
    IF \E i \in 1..Len(text) : TokenId(t, text[i]) = None THEN Err("unmappable")
    ELSE LET ids == [i \in 1..Len(text) |-> TokenId(t, text[i])[1]]
             max == IF t.truncation = None THEN Len(text) ELSE t.truncation[1].max_length
             keep == Min(max, Len(text))
             restIds == Chunks(SubSeq(ids, keep + 1, Len(ids)), max)
             restTok == Chunks(SubSeq(text, keep + 1, Len(text)), max)
         IN Ok([ids |-> SubSeq(ids, 1, keep), tokens |-> SubSeq(text, 1, keep),
                overflowing |-> [i \in 1..Len(restIds) |-> PlainEncoding(restIds[i], restTok[i])]])

\* Tokenizer::with_truncation: the stride must leave room for at least one token
Tokenizer_with_truncation(t, params) ==
    IF params # None /\ params[1].stride >= params[1].max_length
    THEN Err("TruncationParamError")
    ELSE Ok([t EXCEPT !.truncation = params])

Tokenizer_decode(t, ids) ==
    IF \E i \in 1..Len(ids) : IdToken(t, ids[i]) = None THEN Err("unknown id")
    ELSE Ok([i \in 1..Len(ids) |-> IdToken(t, ids[i])[1]])

\* CEncoding::from_encoding: copies the arrays and, recursively, the overflowing
from_encoding(encoding) ==
    [ids |-> encoding.ids, tokens |-> encoding.tokens,
     overflowing |-> [i \in 1..Len(encoding.overflowing) |->
                        [ids |-> encoding.overflowing[i].ids,
                         tokens |-> encoding.overflowing[i].tokens,
                         overflowing |-> <<>>]]]


\* ------------------------------------------------------------------ call plumbing

\* an error message: its text and the values formatted into it
Msg(text) == [text |-> text, args |-> <<>>]

\* what a call does to LAST_ERROR
ErrSet(m) == [op |-> "set", m |-> Msg(m)]
ErrClear == [op |-> "clear", m |-> Msg("")]
ErrKeep == [op |-> "keep", m |-> Msg("")]

ApplyErr(e) ==
    IF e.op = "set" THEN set_last_error(e.m)
    ELSE IF e.op = "clear" THEN clear_last_error
    ELSE lastError

MsgOf(e) == IF e.op = "set" THEN Some(e.m) ELSE None

\* a call that returns a plain value and leaves the heap alone
Finish(fn, nullArg, st, ret, e, arg) ==
    /\ lastError' = ApplyErr(e)
    /\ call' = Call(fn, nullArg, FALSE, st, ret, MsgOf(e), arg)
    /\ HeapSame

\* a call that returns Box::into_raw(Box::new(val)) / CString::into_raw
Give(fn, st, kind, val, e, arg) ==
    /\ CanAlloc(1)
    /\ heap' = Alloc(heap, NewPtr, Boxed(kind, val))
    /\ given' = given \cup {NewPtr}
    /\ UNCHANGED released
    /\ lastError' = ApplyErr(e)
    /\ call' = Call(fn, FALSE, FALSE, st, NewPtr, MsgOf(e), arg)

\* if !p.is_null() { drop(Box::from_raw(p)) }
free_box(fn, p) ==
    /\ heap' = IF p = NullPtr THEN heap ELSE DropBox(heap, p)
    /\ released' = IF p = NullPtr THEN released ELSE released \cup {p}
    /\ UNCHANGED <<given, lastError>>
    /\ call' = Call(fn, p = NullPtr, FALSE, NoStatus, 0, None, p)
    /\ Quiet

\* ------------------------------------------------------------------ lib.rs

tokenizers_get_last_error ==
    /\ ~crashed
    /\ got' = [asked |-> TRUE, ptr |-> lastError]
    /\ UNCHANGED <<heap, given, released, lastError, call, built, outbuf, crashed, engine,
                   threads>>

tokenizers_create(json, sn) ==
    /\ Quiet
    /\ IF json.tag = "null"
       THEN Finish("tokenizers_create", TRUE, set_status(sn, NoStatus, 1), NullPtr,
                   ErrSet("tokenizers_create received null pointer"), NullPtr)
       ELSE IF read_utf8(json).ok
       THEN IF Tokenizer_from_bytes(read_utf8(json).v).ok
            THEN Give("tokenizers_create", set_status(sn, NoStatus, 0), "tokenizer",
                      Tokenizer_from_bytes(read_utf8(json).v).v, ErrClear, NullPtr)
            ELSE Finish("tokenizers_create", FALSE, set_status(sn, NoStatus, 2), NullPtr,
                        ErrSet("tokenizers_create failed"), NullPtr)
       ELSE Finish("tokenizers_create", FALSE, set_status(sn, NoStatus, 3), NullPtr,
                   ErrSet("tokenizers_create could not decode JSON string"), NullPtr)

tokenizers_free(tokenizer) == free_box("tokenizers_free", tokenizer)

tokenizers_encode(tokenizer, sequence, pair, sn) ==
    /\ Quiet
    /\ IF tokenizer = NullPtr \/ sequence.tag = "null"
       THEN Finish("tokenizers_encode", TRUE, set_status(sn, NoStatus, 1), NullPtr,
                   ErrSet("tokenizers_encode received null pointer"), tokenizer)
       ELSE IF ~read_utf8(sequence).ok
       THEN Finish("tokenizers_encode", FALSE, set_status(sn, NoStatus, 2), NullPtr,
                   ErrSet("tokenizers_encode could not decode primary sequence"), tokenizer)
       ELSE IF pair.tag # "null" /\ ~read_utf8(pair).ok
       THEN Finish("tokenizers_encode", FALSE, set_status(sn, NoStatus, 3), NullPtr,
                   ErrSet("tokenizers_encode could not decode pair sequence"), tokenizer)
       ELSE LET primary == read_utf8(sequence).v
                text == IF pair.tag = "null" THEN primary ELSE primary \o read_utf8(pair).v
                encoding_result == Tokenizer_encode(heap[tokenizer].val, text)
            IN IF encoding_result.ok
               THEN Give("tokenizers_encode", set_status(sn, NoStatus, 0), "encoding",
                         from_encoding(encoding_result.v), ErrClear, tokenizer)
               ELSE Finish("tokenizers_encode", FALSE, set_status(sn, NoStatus, 4), NullPtr,
                           ErrSet("tokenizers_encode failed"), tokenizer)

tokenizers_encoding_free(encoding) == free_box("tokenizers_encoding_free", encoding)

\* copies min(len, ids.len()) ids into the caller's buffer
tokenizers_encoding_get_ids(encoding, bufNull, len) ==
    /\ Quiet
    /\ Finish("tokenizers_encoding_get_ids", encoding = NullPtr \/ bufNull, NoStatus,
              IF encoding = NullPtr \/ bufNull THEN 0
              ELSE Min(len, Len(heap[encoding].val.ids)),
              ErrKeep, encoding)

\* one CString::into_raw per token, written into the caller's pointer array
tokenizers_encoding_get_tokens(encoding, bufNull, len) ==
    /\ Quiet
    /\ IF encoding = NullPtr \/ bufNull
       THEN Finish("tokenizers_encoding_get_tokens", TRUE, NoStatus, 0, ErrKeep, encoding)
       ELSE LET count == Min(len, Len(heap[encoding].val.tokens))
                fresh == (Cardinality(given) + 1)..(Cardinality(given) + count)
            IN /\ CanAlloc(count)
               /\ heap' = [q \in Live \cup fresh |->
                             IF q \in fresh
                             THEN Boxed("cstring",
                                        <<heap[encoding].val.tokens[q - Cardinality(given)]>>)
                             ELSE heap[q]]
               /\ given' = given \cup fresh
               /\ UNCHANGED <<released, lastError>>
               /\ call' = Call("tokenizers_encoding_get_tokens", FALSE, FALSE, NoStatus,
                               count, None, encoding)

tokenizers_token_to_id(tokenizer, token, sn) ==
    /\ Quiet
    /\ IF tokenizer = NullPtr \/ token.tag = "null"
       THEN Finish("tokenizers_token_to_id", TRUE, set_status(sn, NoStatus, 1), -1,
                   ErrSet("tokenizers_token_to_id received null pointer"), tokenizer)
       ELSE IF read_utf8(token).ok
       THEN LET id == IF Len(read_utf8(token).v) = 1
                      THEN TokenId(heap[tokenizer].val, read_utf8(token).v[1]) ELSE None
            IN IF id # None
               THEN Finish("tokenizers_token_to_id", FALSE, set_status(sn, NoStatus, 0),
                           id[1], ErrClear, tokenizer)
               ELSE Finish("tokenizers_token_to_id", FALSE, set_status(sn, NoStatus, 2), -1,
                           ErrSet("tokenizers_token_to_id: token not found"), tokenizer)
       ELSE Finish("tokenizers_token_to_id", FALSE, set_status(sn, NoStatus, 3), -1,
                   ErrSet("tokenizers_token_to_id could not decode token"), tokenizer)

tokenizers_id_to_token(tokenizer, id, sn) ==
    /\ Quiet
    /\ IF tokenizer = NullPtr
       THEN Finish("tokenizers_id_to_token", TRUE, set_status(sn, NoStatus, 1), NullPtr,
                   ErrSet("tokenizers_id_to_token received null pointer"), tokenizer)
       ELSE IF IdToken(heap[tokenizer].val, id) # None
       THEN Give("tokenizers_id_to_token", set_status(sn, NoStatus, 0), "cstring",
                 <<IdToken(heap[tokenizer].val, id)[1]>>, ErrClear, tokenizer)
       ELSE Finish("tokenizers_id_to_token", FALSE, set_status(sn, NoStatus, 3), NullPtr,
                   ErrSet("tokenizers_id_to_token: id not found"), tokenizer)

\* a plausible slip: the failed decode resets the truncation of the tokenizer
tokenizers_decode_resetting(tokenizer, ids, sn) ==
    /\ Quiet
    /\ IF tokenizer = NullPtr \/ ids.tag = "null"
       THEN Finish("tokenizers_decode", TRUE, set_status(sn, NoStatus, 1), NullPtr,
                   ErrSet("tokenizers_decode received null pointer"), tokenizer)
       ELSE IF Tokenizer_decode(heap[tokenizer].val, ids.s).ok
       THEN Give("tokenizers_decode", set_status(sn, NoStatus, 0), "cstring",
                 Tokenizer_decode(heap[tokenizer].val, ids.s).v, ErrClear, tokenizer)
       ELSE /\ heap' = [heap EXCEPT ![tokenizer].val.truncation = None]
            /\ UNCHANGED <<given, released>>
            /\ lastError' = set_last_error(Msg("tokenizers_decode failed"))
            /\ call' = Call("tokenizers_decode", FALSE, FALSE, set_status(sn, NoStatus, 3),
                            NullPtr, Some(Msg("tokenizers_decode failed")), tokenizer)

tokenizers_decode(tokenizer, ids, sn) ==
    /\ Quiet
    /\ IF tokenizer = NullPtr \/ ids.tag = "null"
       THEN Finish("tokenizers_decode", TRUE, set_status(sn, NoStatus, 1), NullPtr,
                   ErrSet("tokenizers_decode received null pointer"), tokenizer)
       ELSE IF Tokenizer_decode(heap[tokenizer].val, ids.s).ok
       THEN Give("tokenizers_decode", set_status(sn, NoStatus, 0), "cstring",
                 Tokenizer_decode(heap[tokenizer].val, ids.s).v, ErrClear, tokenizer)
       ELSE Finish("tokenizers_decode", FALSE, set_status(sn, NoStatus, 3), NullPtr,
                   ErrSet("tokenizers_decode failed"), tokenizer)

tokenizers_free_string(s) == free_box("tokenizers_free_string", s)


\* a call that changes the object behind the handle p and returns a plain value
Update(fn, st, ret, e, p, val) ==
    /\ heap' = [heap EXCEPT ![p].val = val]
    /\ UNCHANGED <<given, released>>
    /\ lastError' = ApplyErr(e)
    /\ call' = Call(fn, FALSE, FALSE, st, ret, MsgOf(e), p)

tokenizers_enable_truncation(tokenizer, max_length, stride, strategy, direction, sn) ==
    /\ Quiet
    /\ IF tokenizer = NullPtr
       THEN Finish("tokenizers_enable_truncation", TRUE, set_status(sn, NoStatus, 1), 0,
                   ErrSet("tokenizers_enable_truncation received null pointer"), tokenizer)
       ELSE IF strategy \notin {0, 1, 2}
       THEN Finish("tokenizers_enable_truncation", FALSE, set_status(sn, NoStatus, 2), 0,
                   ErrSet("tokenizers_enable_truncation unknown strategy"), tokenizer)
       ELSE IF direction \notin {0, 1}
       THEN Finish("tokenizers_enable_truncation", FALSE, set_status(sn, NoStatus, 3), 0,
                   ErrSet("tokenizers_enable_truncation unknown direction"), tokenizer)
       ELSE LET params == Some([max_length |-> max_length, stride |-> stride])
                r == Tokenizer_with_truncation(heap[tokenizer].val, params)
            IN IF r.ok
               THEN Update("tokenizers_enable_truncation", set_status(sn, NoStatus, 0), 1,
                           ErrClear, tokenizer, r.v)
               ELSE Finish("tokenizers_enable_truncation", FALSE, set_status(sn, NoStatus, 4),
                           0, ErrSet("tokenizers_enable_truncation failed"), tokenizer)

tokenizers_disable_truncation(tokenizer, sn) ==
    /\ Quiet
    /\ IF tokenizer = NullPtr
       THEN Finish("tokenizers_disable_truncation", TRUE, set_status(sn, NoStatus, 1), 0,
                   ErrSet("tokenizers_disable_truncation received null pointer"), tokenizer)
       ELSE LET r == Tokenizer_with_truncation(heap[tokenizer].val, None)
            IN IF r.ok
               THEN Update("tokenizers_disable_truncation", set_status(sn, NoStatus, 0), 1,
                           ErrClear, tokenizer, r.v)
               ELSE Finish("tokenizers_disable_truncation", FALSE, set_status(sn, NoStatus, 2),
                           0, ErrSet("tokenizers_disable_truncation failed"), tokenizer)

tokenizers_encoding_get_overflowing_count(encoding) ==
    /\ Quiet
    /\ Finish("tokenizers_encoding_get_overflowing_count", encoding = NullPtr, NoStatus,
              IF encoding = NullPtr THEN 0 ELSE Len(heap[encoding].val.overflowing),
              ErrKeep, encoding)

\* handing out &encoding.overflowing[index] itself instead of a copy
alias_overflowing(parent, overflowing_encoding) ==
    [kind |-> "encoding", owner |-> parent, origin |-> parent, val |-> overflowing_encoding]

\* Box::into_raw(Box::new(overflowing_encoding.clone())): a new box holding a copy
clone_overflowing(parent, overflowing_encoding) ==
    [Boxed("encoding", overflowing_encoding) EXCEPT !.origin = parent]

tokenizers_encoding_get_overflowing(encoding, index, sn) ==
    /\ Quiet
    /\ IF encoding = NullPtr
       THEN Finish("tokenizers_encoding_get_overflowing", TRUE, set_status(sn, NoStatus, 1),
                   NullPtr,
                   ErrSet("tokenizers_encoding_get_overflowing received null pointer"),
                   encoding)
       ELSE IF index >= Len(heap[encoding].val.overflowing)
       THEN Finish("tokenizers_encoding_get_overflowing", FALSE, set_status(sn, NoStatus, 2),
                   NullPtr,
                   ErrSet("tokenizers_encoding_get_overflowing index out of bounds"),
                   encoding)
       ELSE /\ CanAlloc(1)
            /\ heap' = Alloc(heap, NewPtr,
                             clone_overflowing(encoding, heap[encoding].val.overflowing[index + 1]))
            /\ given' = given \cup {NewPtr}
            /\ UNCHANGED released
            /\ lastError' = clear_last_error
            /\ call' = Call("tokenizers_encoding_get_overflowing", FALSE, FALSE,
                            set_status(sn, NoStatus, 0), NewPtr, None, encoding)

\* ------------------------------------------------------------------ encoding/methods.rs

tokenizers_encoding_pad(encoding, target_length, pad_token, direction, sn) ==
    LET Stop(nullArg, code, text) ==
            /\ lastError' = ApplyErr(ErrSet(text))
            /\ call' = [Call("tokenizers_encoding_pad", nullArg, FALSE,
                             set_status(sn, NoStatus, code), 0, MsgOf(ErrSet(text)), encoding)
                           EXCEPT !.input = [target_length |-> target_length,
                                             pad_token |-> pad_token, direction |-> direction]]
            /\ HeapSame
    IN /\ Quiet
       /\ IF encoding = NullPtr
          THEN Stop(TRUE, 1, "tokenizers_encoding_pad received null pointer")
          ELSE IF direction \notin {0, 1}
          THEN Stop(FALSE, 2, "tokenizers_encoding_pad unknown direction")
          ELSE IF ~read_optional_utf8(pad_token).ok
          THEN Stop(FALSE, 3, "tokenizers_encoding_pad could not decode pad token")
          ELSE Stop(FALSE, 4, "tokenizers_encoding_pad not fully implemented yet")

tokenizers_encoding_truncate(encoding, direction, sn) ==
    /\ Quiet
    /\ IF encoding = NullPtr
       THEN Finish("tokenizers_encoding_truncate", TRUE, set_status(sn, NoStatus, 1), 0,
                   ErrSet("tokenizers_encoding_truncate received null pointer"), encoding)
       ELSE IF direction \notin {0, 1}
       THEN Finish("tokenizers_encoding_truncate", FALSE, set_status(sn, NoStatus, 2), 0,
                   ErrSet("tokenizers_encoding_truncate unknown direction"), encoding)
       ELSE Finish("tokenizers_encoding_truncate", FALSE, set_status(sn, NoStatus, 3), 0,
                   ErrSet("tokenizers_encoding_truncate not fully implemented yet"), encoding)


\* ------------------------------------------------------------------ text

WhiteSpace == {" ", "\t", "\r", "\n"}

\* the pieces of s between occurrences of the character c (always at least one)
RECURSIVE SplitOn(_, _)
SplitOn(s, c) ==
    IF \A i \in 1..Len(s) : s[i] # c THEN <<s>>
    ELSE LET i == CHOOSE k \in 1..Len(s) : s[k] = c /\ \A j \in 1..(k - 1) : s[j] # c
         IN <<SubSeq(s, 1, i - 1)>> \o SplitOn(SubSeq(s, i + 1, Len(s)), c)

\* str::lines(): split at "\n", a final empty piece is no line, and a "\r"
\* before the "\n" belongs to the line ending
Lines(s) ==
    LET segs == SplitOn(s, "\n")
        kept == IF segs[Len(segs)] = <<>> THEN SubSeq(segs, 1, Len(segs) - 1) ELSE segs
        strip(l) == IF Len(l) > 0 /\ l[Len(l)] = "\r" THEN SubSeq(l, 1, Len(l) - 1) ELSE l
    IN [i \in 1..Len(kept) |-> strip(kept[i])]

\* str::trim()
RECURSIVE trim(_)
trim(s) ==
    IF s = <<>> THEN s
    ELSE IF s[1] \in WhiteSpace THEN trim(Tail(s))
    ELSE IF s[Len(s)] \in WhiteSpace THEN trim(SubSeq(s, 1, Len(s) - 1))
    ELSE s

\* str::split_whitespace(): the maximal runs of non-whitespace characters
RECURSIVE split_whitespace(_)
split_whitespace(s) ==
    LET t == trim(s)
    IN IF t = <<>> THEN <<>>
       ELSE IF \A i \in 1..Len(t) : t[i] \notin WhiteSpace THEN <<t>>
       ELSE LET i == CHOOSE k \in 1..Len(t) :
                        t[k] \in WhiteSpace /\ \A j \in 1..(k - 1) : t[j] \notin WhiteSpace
            IN <<SubSeq(t, 1, i - 1)>> \o split_whitespace(SubSeq(t, i + 1, Len(t)))

\* ------------------------------------------------------------------ models/bpe.rs

\* f32 arguments: NaN, or a value in tenths
F32(v) == [nan |-> FALSE, v |-> v]
NaN == [nan |-> TRUE, v |-> 0]

\* serde_json::from_str::<Vocab>: the document "{" key ... "}" maps each key to
\* its position; anything else is a syntax error
ParseVocab(s) ==
    IF Len(s) >= 2 /\ s[1] = "{" /\ s[Len(s)] = "}"
    THEN Ok({s[i] : i \in 2..(Len(s) - 1)})
    ELSE Err("syntax")

\* a merges loop that pushes each pair to the front
RECURSIVE parse_merges_front(_, _, _)
parse_merges_front(lines, i, merges) ==
    IF i > Len(lines) THEN Ok(merges)
    ELSE LET line == trim(lines[i])
             parts == split_whitespace(line)
         IN IF line = <<>> \/ line[1] = "#" THEN parse_merges_front(lines, i + 1, merges)
            ELSE IF Len(parts) # 2 THEN Err([i |-> i - 1, found |-> Len(parts)])
            ELSE parse_merges_front(lines, i + 1, <<<<parts[1], parts[2]>>>> \o merges)

\* a message that names the zero-based index of the line
InvalidMergeMessage_index(e) ==
    [text |-> "Invalid merge at line {}: expected 2 tokens, found {}",
     args |-> <<e.i, e.found>>]

\* the merges loop of tokenizers_bpe_create: the pairs of the accepted lines,
\* or the first line that does not hold exactly two tokens
\* (lines[i] here is the line the code's enumerate() numbers i - 1)
RECURSIVE parse_merges(_, _, _)
parse_merges(lines, i, merges) ==
    IF i > Len(lines) THEN Ok(merges)
    ELSE LET line == trim(lines[i])
             parts == split_whitespace(line)
         IN IF line = <<>> \/ line[1] = "#" THEN parse_merges(lines, i + 1, merges)
            ELSE IF Len(parts) # 2 THEN Err([i |-> i - 1, found |-> Len(parts)])
            ELSE parse_merges(lines, i + 1, Append(merges, <<parts[1], parts[2]>>))

\* format!("Invalid merge at line {}: expected 2 tokens, found {}", i + 1, parts.len())
InvalidMergeMessage(e) ==
    [text |-> "Invalid merge at line {}: expected 2 tokens, found {}",
     args |-> <<e.i + 1, e.found>>]

\* BpeBuilder::build as the build contract states it
BpeBuilder_build(config) ==
    IF config.dropout # None /\ (config.dropout[1].nan \/ config.dropout[1].v < 0
                                  \/ config.dropout[1].v > 10)
    THEN Err("InvalidDropout")
    ELSE IF \E k \in 1..Len(config.merges) :
               \/ config.merges[k][1] \notin config.vocab
               \/ config.merges[k][2] \notin config.vocab
               \/ config.merges[k][1] \o config.merges[k][2] \notin config.vocab
    THEN Err("InvalidMergeRule")
    ELSE IF config.unk_token # None /\ config.unk_token[1] \notin config.vocab
    THEN Err("UnknownTokenNotInVocab")
    ELSE Ok(config)

\* a builder that leaves out the rules the vocabulary cannot serve
bpe_builder_skipping(vocab, merges, fuse_unk, byte_fallback, cache_capacity, dropout, unk_token, continuing_subword_prefix, end_of_word_suffix) ==
    [vocab |-> vocab,
     merges |-> SelectSeq(merges, LAMBDA r : r[1] \in vocab /\ r[2] \in vocab
                                              /\ r[1] \o r[2] \in vocab),
     fuse_unk |-> fuse_unk, byte_fallback |-> byte_fallback, cache_capacity |-> None,
     dropout |-> None, unk_token |-> None, continuing_subword_prefix |-> None,
     end_of_word_suffix |-> None]

\* the builder as tokenizers_bpe_create and tokenizers_bpe_from_file configure
\* it: the capacity only when positive, the dropout only when within [0, 1], the
\* optional strings only when non-null and valid UTF-8
bpe_builder(vocab, merges, fuse_unk, byte_fallback, cache_capacity, dropout, unk_token, continuing_subword_prefix, end_of_word_suffix) ==
    LET opt(p) == IF p.tag = "str" THEN Some(p.s) ELSE None
    IN [vocab |-> vocab,
        merges |-> merges,
        fuse_unk |-> fuse_unk,
        byte_fallback |-> byte_fallback,
        cache_capacity |-> IF cache_capacity > 0 THEN Some(cache_capacity) ELSE None,
        dropout |-> IF ~dropout.nan /\ dropout.v >= 0 /\ dropout.v <= 10
                    THEN Some(dropout) ELSE None,
        unk_token |-> opt(unk_token),
        continuing_subword_prefix |-> opt(continuing_subword_prefix),
        end_of_word_suffix |-> opt(end_of_word_suffix)]

\* CStr::from_ptr on a null pointer is undefined: the process dies, or the
\* bytes found at address zero are taken for the string
Garbage == {BADUTF8, Str(<<>>)}

Crash(fn) ==
    /\ ~crashed
    /\ crashed' = TRUE
    /\ call' = Call(fn, TRUE, TRUE, NoStatus, NullPtr, None, NullPtr)
    /\ built' = NoBuilt
    /\ outbuf' = NoBuf
    /\ got' = [asked |-> FALSE, ptr |-> None]
    /\ UNCHANGED <<heap, given, released, lastError, engine, threads>>

\* the body of tokenizers_bpe_create once both strings have been read
bpe_create_body(vocab_cstr, merges_cstr, cache_capacity, dropout, unk_token, continuing_subword_prefix, end_of_word_suffix, fuse_unk, byte_fallback, sn, nullArg) ==
    LET fn == "tokenizers_bpe_create"
        args == [vocab |-> vocab_cstr, merges |-> merges_cstr, dropout |-> dropout]
        fail(code, m) ==
            /\ heap' = heap
            /\ given' = given
            /\ lastError' = set_last_error(m)
            /\ call' = [Call(fn, nullArg, nullArg, set_status(sn, NoStatus, code), NullPtr,
                             Some(m), NullPtr) EXCEPT !.input = args]
    IN /\ ~crashed
       /\ UNCHANGED <<released, crashed, engine, threads>>
       /\ outbuf' = NoBuf
       /\ got' = [asked |-> FALSE, ptr |-> None]
       /\ IF vocab_cstr.tag = "bad"
          THEN fail(-1, Msg("Invalid vocab JSON string")) /\ built' = NoBuilt
          ELSE IF ~ParseVocab(vocab_cstr.s).ok
          THEN fail(-2, Msg("Failed to parse vocab JSON")) /\ built' = NoBuilt
          ELSE IF merges_cstr.tag = "bad"
          THEN fail(-3, Msg("Invalid merges string")) /\ built' = NoBuilt
          ELSE LET parsed == parse_merges(Lines(merges_cstr.s), 1, <<>>)
               IN IF ~parsed.ok
                  THEN fail(-4, InvalidMergeMessage(parsed.v)) /\ built' = NoBuilt
                  ELSE LET config ==
                               bpe_builder(ParseVocab(vocab_cstr.s).v, parsed.v, fuse_unk,
                                           byte_fallback, cache_capacity, dropout, unk_token,
                                           continuing_subword_prefix, end_of_word_suffix)
                       IN /\ built' = [reached |-> TRUE, config |-> Some(config)]
                          /\ IF BpeBuilder_build(config).ok
                             THEN /\ CanAlloc(1)
                                  /\ heap' = Alloc(heap, NewPtr,
                                                   Boxed("bpe", BpeBuilder_build(config).v))
                                  /\ given' = given \cup {NewPtr}
                                  /\ UNCHANGED lastError
                                  /\ call' = [Call(fn, nullArg, nullArg,
                                                   set_status(sn, NoStatus, 0), NewPtr, None,
                                                   NullPtr) EXCEPT !.input = args]
                             ELSE fail(-5, Msg("Failed to build BPE model"))

tokenizers_bpe_create(vocab_json, merges_str, cache_capacity, dropout, unk_token, continuing_subword_prefix, end_of_word_suffix, fuse_unk, byte_fallback, sn) ==
    IF vocab_json.tag = "null" \/ merges_str.tag = "null"
    THEN \/ Crash("tokenizers_bpe_create")
         \/ \E g \in Garbage :
               bpe_create_body(IF vocab_json.tag = "null" THEN g ELSE vocab_json,
                               IF merges_str.tag = "null" THEN g ELSE merges_str,
                               cache_capacity, dropout, unk_token, continuing_subword_prefix,
                               end_of_word_suffix, fuse_unk, byte_fallback, sn, TRUE)
    ELSE bpe_create_body(vocab_json, merges_str, cache_capacity, dropout, unk_token,
                         continuing_subword_prefix, end_of_word_suffix, fuse_unk,
                         byte_fallback, sn, FALSE)

tokenizers_bpe_free(model) == free_box("tokenizers_bpe_free", model)

\* ------------------------------------------------------------------ constructors

\* a constructor's error return: ptr::null_mut()
Fail(fn, nullArg, st, e) == Finish(fn, nullArg, st, NullPtr, e, NullPtr) /\ Quiet

\* a constructor's success return: Box::into_raw(Box::new(val)); LAST_ERROR is
\* left as it was
New(fn, st, kind, val) == Give(fn, st, kind, val, ErrKeep, NullPtr) /\ Quiet

\* the two returns of a constructor, with the arguments the call had
FailOn(fn, nullArg, st, input) ==
    /\ call' = [Call(fn, nullArg, FALSE, st, NullPtr, None, NullPtr) EXCEPT !.input = input]
    /\ UNCHANGED lastError
    /\ HeapSame
    /\ Quiet

NewOn(fn, st, kind, val, input) ==
    /\ CanAlloc(1)
    /\ heap' = Alloc(heap, NewPtr, Boxed(kind, val))
    /\ given' = given \cup {NewPtr}
    /\ call' = [Call(fn, FALSE, FALSE, st, NewPtr, None, NullPtr) EXCEPT !.input = input]
    /\ UNCHANGED <<released, lastError>>
    /\ Quiet

\* set_status(status, -1) at the top of a constructor, then set_status(status, code)
Started == set_status(FALSE, NoStatus, -1)
Status(code) == set_status(FALSE, Started, code)

\* the files the library can read
GoodVocab == {<<"a">>, <<"b">>, <<"a", "b">>, <<"b", "a">>}
BPE_read_file(vocab_path, merges_path) ==
    IF vocab_path = "vocab.json" /\ merges_path = "merges.txt"
    THEN Ok([vocab |-> GoodVocab, merges |-> <<<<<<"a">>, <<"b">>>>>>])
    ELSE IF vocab_path = "vocab.json" /\ merges_path = "stale.txt"
    THEN Ok([vocab |-> GoodVocab, merges |-> <<<<<<"a">>, <<"a">>>>>>])
    ELSE Err("io")
read_vocab_file(vocab_path) == IF vocab_path = "vocab.txt" THEN Ok(GoodVocab) ELSE Err("io")

tokenizers_bpe_from_file(vocab_path, merges_path, cache_capacity, dropout, unk_token, fuse_unk, sn) ==
    LET fn == "tokenizers_bpe_from_file"
        st(code) == set_status(sn, NoStatus, code)
        vp == IF vocab_path.tag = "null" THEN BADUTF8 ELSE vocab_path
        mp == IF merges_path.tag = "null" THEN BADUTF8 ELSE merges_path
        nullArg == vocab_path.tag = "null" \/ merges_path.tag = "null"
        args == [vocab |-> vp, merges |-> mp, dropout |-> dropout]
        finish(code, m) ==
            /\ HeapSame
            /\ lastError' = set_last_error(Msg(m))
            /\ call' = [Call(fn, nullArg, nullArg, st(code), NullPtr, Some(Msg(m)), NullPtr)
                            EXCEPT !.input = args]
    IN \/ nullArg /\ Crash(fn)
       \/ /\ ~crashed
          /\ UNCHANGED <<crashed, engine, threads>>
          /\ outbuf' = NoBuf
          /\ got' = [asked |-> FALSE, ptr |-> None]
          /\ IF vp.tag = "bad" THEN finish(-1, "Invalid vocab path") /\ built' = NoBuilt
             ELSE IF mp.tag = "bad" THEN finish(-2, "Invalid merges path") /\ built' = NoBuilt
             ELSE IF ~BPE_read_file(vp.s, mp.s).ok
             THEN finish(-3, "Failed to read BPE files") /\ built' = NoBuilt
             ELSE LET config ==
                          bpe_builder(BPE_read_file(vp.s, mp.s).v.vocab,
                                      BPE_read_file(vp.s, mp.s).v.merges, fuse_unk, FALSE,
                                      cache_capacity, dropout, unk_token, NULL, NULL)
                  IN /\ built' = [reached |-> TRUE, config |-> Some(config)]
                     /\ IF BpeBuilder_build(config).ok
                        THEN /\ CanAlloc(1)
                             /\ heap' = Alloc(heap, NewPtr,
                                              Boxed("bpe", BpeBuilder_build(config).v))
                             /\ given' = given \cup {NewPtr}
                             /\ UNCHANGED <<released, lastError>>
                             /\ call' = [Call(fn, nullArg, nullArg, st(0), NewPtr, None,
                                              NullPtr) EXCEPT !.input = args]
                        ELSE finish(-4, "Failed to build BPE model")

\* vocab: a null array, or an array of token pointers
tokenizers_unigram_new(vocab, unk_id, byte_fallback, sn) ==
    LET fn == "tokenizers_unigram_new"
    IN IF sn THEN Fail(fn, FALSE, NoStatus, ErrKeep)
       ELSE IF vocab.tag = "null"
       THEN Fail(fn, TRUE, Status(-2), ErrSet("Vocab cannot be null"))
       ELSE IF Len(vocab.s) = 0
       THEN Fail(fn, FALSE, Status(-3), ErrSet("Vocab cannot be empty"))
       ELSE IF \E i \in 1..Len(vocab.s) :
                  /\ vocab.s[i].tag # "str"
                  /\ \A j \in 1..(i - 1) : vocab.s[j].tag = "str"
                  /\ vocab.s[i].tag = "null"
       THEN Fail(fn, TRUE, Status(-4), ErrSet("Vocab item token cannot be null"))
       ELSE IF \E i \in 1..Len(vocab.s) : vocab.s[i].tag = "bad"
       THEN Fail(fn, FALSE, Status(-5), ErrSet("Invalid UTF-8 in vocab item token"))
       ELSE IF unk_id # None /\ unk_id[1] >= Len(vocab.s)
       THEN Fail(fn, FALSE, Status(-6), ErrSet("Failed to create Unigram model"))
       ELSE New(fn, Status(0), "unigram",
                [vocab |-> [i \in 1..Len(vocab.s) |-> vocab.s[i].s], unk_id |-> unk_id,
                 byte_fallback |-> byte_fallback])

tokenizers_wordpiece_from_file(vocab_path, unk_token, continuing_subword_prefix, built_ok, sn) ==
    LET fn == "tokenizers_wordpiece_from_file"
    IN IF sn THEN Fail(fn, FALSE, NoStatus, ErrKeep)
       ELSE IF vocab_path.tag = "null"
       THEN Fail(fn, TRUE, Status(-2), ErrSet("Vocab path cannot be null"))
       ELSE IF vocab_path.tag = "bad"
       THEN Fail(fn, FALSE, Status(-3), ErrSet("Invalid UTF-8 in vocab path"))
       ELSE IF vocab_path.s = ""
       THEN Fail(fn, FALSE, Status(-4), ErrSet("Vocab path cannot be empty"))
       ELSE IF ~read_vocab_file(vocab_path.s).ok
       THEN Fail(fn, FALSE, Status(-5), ErrSet("Failed to read WordPiece vocab file"))
       ELSE IF unk_token.tag = "bad"
       THEN Fail(fn, FALSE, Status(-6), ErrSet("Invalid UTF-8 in unknown token"))
       ELSE IF continuing_subword_prefix.tag = "bad"
       THEN Fail(fn, FALSE, Status(-7), ErrSet("Invalid UTF-8 in continuing subword prefix"))
       ELSE IF ~built_ok
       THEN Fail(fn, FALSE, Status(-8), ErrSet("Failed to build WordPiece model"))
       ELSE New(fn, Status(0), "wordpiece",
                [vocab |-> read_vocab_file(vocab_path.s).v,
                 unk_token |-> IF unk_token.tag = "str" /\ unk_token.s # ""
                               THEN Some(unk_token.s) ELSE None,
                 continuing_subword_prefix |->
                     IF continuing_subword_prefix.tag = "str"
                        /\ continuing_subword_prefix.s # ""
                     THEN Some(continuing_subword_prefix.s) ELSE None])

tokenizers_wordlevel_from_file(vocab_path, unk_token, built_ok, sn) ==
    LET fn == "tokenizers_wordlevel_from_file"
    IN IF sn THEN Fail(fn, FALSE, NoStatus, ErrKeep)
       ELSE IF vocab_path.tag = "null"
       THEN Fail(fn, TRUE, Status(-2), ErrSet("Vocab path cannot be null"))
       ELSE IF vocab_path.tag = "bad"
       THEN Fail(fn, FALSE, Status(-3), ErrSet("Invalid UTF-8 in vocab path"))
       ELSE IF vocab_path.s = ""
       THEN Fail(fn, FALSE, Status(-4), ErrSet("Vocab path cannot be empty"))
       ELSE IF ~read_vocab_file(vocab_path.s).ok
       THEN Fail(fn, FALSE, Status(-5), ErrSet("Failed to read WordLevel vocab file"))
       ELSE IF unk_token.tag = "bad"
       THEN Fail(fn, FALSE, Status(-6), ErrSet("Invalid UTF-8 in unknown token"))
       ELSE IF ~built_ok
       THEN Fail(fn, FALSE, Status(-7), ErrSet("Failed to build WordLevel model"))
       ELSE New(fn, Status(0), "wordlevel",
                [vocab |-> read_vocab_file(vocab_path.s).v,
                 unk_token |-> IF unk_token.tag = "str" /\ unk_token.s # ""
                               THEN Some(unk_token.s) ELSE None])

\* tokenizers_unigram_free, tokenizers_wordpiece_free, tokenizers_wordlevel_free
model_free(kind, model) == free_box("tokenizers_" \o kind \o "_free", model)

\* ------------------------------------------------------------------ normalizers/*.rs

\* a constructor that forgets its final set_status(status, 0)
plain_new_unset(fn, kind, val, sn) ==
    IF sn THEN Fail(fn, FALSE, NoStatus, ErrKeep) ELSE New(fn, Started, kind, val)

\* the shape shared by the constructors without a string argument: null status
\* -> null; set_status(-1); build; set_status(0); Box::into_raw
plain_new(fn, kind, val, sn) ==
    IF sn THEN Fail(fn, FALSE, NoStatus, ErrKeep) ELSE New(fn, Status(0), kind, val)

tokenizers_lowercase_new(sn) == plain_new("tokenizers_lowercase_new", "lowercase", <<>>, sn)
tokenizers_nfd_new(sn) == plain_new("tokenizers_nfd_new", "nfd", <<>>, sn)
tokenizers_nfc_new(sn) == plain_new("tokenizers_nfc_new", "nfc", <<>>, sn)
tokenizers_nfkd_new(sn) == plain_new("tokenizers_nfkd_new", "nfkd", <<>>, sn)
tokenizers_nfkc_new(sn) == plain_new("tokenizers_nfkc_new", "nfkc", <<>>, sn)
tokenizers_nmt_normalizer_new(sn) ==
    plain_new("tokenizers_nmt_normalizer_new", "nmt_normalizer", <<>>, sn)
tokenizers_byte_level_normalizer_new(sn) ==
    plain_new("tokenizers_byte_level_normalizer_new", "byte_level_normalizer", <<>>, sn)
tokenizers_strip_accents_new(sn) ==
    plain_new("tokenizers_strip_accents_new", "strip_accents", <<>>, sn)
tokenizers_strip_normalizer_new(left, right, sn) ==
    plain_new("tokenizers_strip_normalizer_new", "strip_normalizer",
              [left |-> left, right |-> right], sn)

\* strip_accents: a null pointer (None) or a pointer to a bool
tokenizers_bert_normalizer_new(clean_text, handle_chinese_chars, strip_accents, lowercase, sn) ==
    plain_new("tokenizers_bert_normalizer_new", "bert_normalizer",
              [clean_text |-> clean_text, handle_chinese_chars |-> handle_chinese_chars,
               strip_accents |-> strip_accents, lowercase |-> lowercase], sn)

\* Regex::new: an unbalanced group does not compile
Regex_new(pattern) ==
    IF Cardinality({i \in 1..Len(pattern) : pattern[i] = "("})
           = Cardinality({i \in 1..Len(pattern) : pattern[i] = ")"})
    THEN Ok(pattern) ELSE Err("regex")

tokenizers_replace_normalizer_new(pattern, content, sn) ==
    LET fn == "tokenizers_replace_normalizer_new"
    IN IF sn THEN Fail(fn, FALSE, NoStatus, ErrKeep)
       ELSE IF pattern.tag = "null" \/ content.tag = "null"
       THEN Fail(fn, TRUE, Started, ErrSet("Pattern and content cannot be null"))
       ELSE IF pattern.tag = "bad" THEN Fail(fn, FALSE, Started, ErrSet("Invalid UTF-8 pattern"))
       ELSE IF content.tag = "bad" THEN Fail(fn, FALSE, Started, ErrSet("Invalid UTF-8 content"))
       ELSE IF ~Regex_new(pattern.s).ok
       THEN Fail(fn, FALSE, Status(-2), ErrSet("Failed to create Replace normalizer"))
       ELSE New(fn, Status(0), "replace_normalizer",
                [pattern |-> pattern.s, content |-> content.s])

tokenizers_prepend_normalizer_new(prepend, sn) ==
    LET fn == "tokenizers_prepend_normalizer_new"
    IN IF sn THEN Fail(fn, FALSE, NoStatus, ErrKeep)
       ELSE IF prepend.tag = "null"
       THEN Fail(fn, TRUE, Started, ErrSet("Prepend string cannot be null"))
       ELSE IF prepend.tag = "bad"
       THEN Fail(fn, FALSE, Started, ErrSet("Invalid UTF-8 prepend string"))
       ELSE New(fn, Status(0), "prepend_normalizer", [prepend |-> prepend.s])

NormalizerKinds ==
    {"lowercase", "nfd", "nfc", "nfkd", "nfkc", "nmt_normalizer", "byte_level_normalizer",
     "strip_accents", "strip_normalizer", "bert_normalizer", "replace_normalizer",
     "prepend_normalizer"}

\* tokenizers_<kind>_free of each normalizer
normalizer_free(kind, normalizer) == free_box("tokenizers_" \o kind \o "_free", normalizer)

\* ------------------------------------------------------------------ pre_tokenizers/*.rs

tokenizers_whitespace_new(sn) == plain_new("tokenizers_whitespace_new", "whitespace", <<>>, sn)
tokenizers_whitespace_split_new(sn) ==
    plain_new("tokenizers_whitespace_split_new", "whitespace_split", <<>>, sn)
tokenizers_digits_new(individual_digits, sn) ==
    plain_new("tokenizers_digits_new", "digits", [individual_digits |-> individual_digits], sn)

\* writes status 0 when the pointer is not null and builds the object either way
tokenizers_unicode_scripts_new(sn) ==
    New("tokenizers_unicode_scripts_new", set_status(sn, NoStatus, 0), "unicode_scripts", <<>>)

\* a plausible slip: the capital letter is accepted too
parse_behavior_any_case(behavior_str) ==
    IF behavior_str \in {"removed", "isolated", "Isolated", "merged_with_previous",
                         "merged_with_next", "contiguous"}
    THEN Ok(behavior_str) ELSE Err("behavior")

\* parse_behavior of split.rs and of punctuation.rs
parse_behavior(behavior_str) ==
    IF behavior_str \in {"removed", "isolated", "merged_with_previous", "merged_with_next",
                         "contiguous"}
    THEN Ok(behavior_str) ELSE Err("behavior")

tokenizers_punctuation_new(behavior, sn) ==
    LET fn == "tokenizers_punctuation_new"
        args == [behavior |-> behavior]
    IN IF sn THEN FailOn(fn, FALSE, NoStatus, args)
       ELSE IF behavior.tag = "null" THEN FailOn(fn, TRUE, set_status(sn, NoStatus, -1), args)
       ELSE IF behavior.tag = "bad" THEN FailOn(fn, FALSE, set_status(sn, NoStatus, -2), args)
       ELSE IF ~parse_behavior(behavior.s).ok
       THEN FailOn(fn, FALSE, set_status(sn, NoStatus, -3), args)
       ELSE NewOn(fn, set_status(sn, NoStatus, 0), "punctuation",
                  [behavior |-> parse_behavior(behavior.s).v], args)

\* tokenizers_split_new (regex = FALSE) and tokenizers_split_new_regex (regex = TRUE)
split_new(fn, regex, pattern, behavior, invert, sn) ==
    LET first == set_status(sn, NoStatus, -1)
        args == [pattern |-> pattern, behavior |-> behavior]
    IN IF pattern.tag = "null" THEN FailOn(fn, TRUE, set_status(sn, first, -2), args)
       ELSE IF pattern.tag = "bad" THEN FailOn(fn, FALSE, set_status(sn, first, -2), args)
       ELSE IF behavior.tag = "null" THEN FailOn(fn, TRUE, set_status(sn, first, -2), args)
       ELSE IF behavior.tag = "bad" THEN FailOn(fn, FALSE, set_status(sn, first, -2), args)
       ELSE IF ~parse_behavior(behavior.s).ok
       THEN FailOn(fn, FALSE, set_status(sn, first, -3), args)
       ELSE IF regex /\ ~Regex_new(pattern.s).ok
       THEN FailOn(fn, FALSE, set_status(sn, first, -4), args)
       ELSE NewOn(fn, set_status(sn, first, 0), "split",
                  [regex |-> regex, pattern |-> pattern.s,
                   behavior |-> parse_behavior(behavior.s).v, invert |-> invert], args)

tokenizers_split_new(pattern, behavior, invert, sn) ==
    split_new("tokenizers_split_new", FALSE, pattern, behavior, invert, sn)

tokenizers_split_new_regex(pattern, behavior, invert, sn) ==
    split_new("tokenizers_split_new_regex", TRUE, pattern, behavior, invert, sn)

\* a plausible slip: a scheme that is not known counts as "always"
parse_prepend_scheme_defaulting(scheme_str) ==
    IF scheme_str \in {"never", "first"} THEN Ok(scheme_str) ELSE Ok("always")

parse_prepend_scheme(scheme_str) ==
    IF scheme_str \in {"always", "never", "first"} THEN Ok(scheme_str) ELSE Err("scheme")

tokenizers_metaspace_new(replacement, prepend_scheme, split, sn) ==
    LET fn == "tokenizers_metaspace_new"
        first == set_status(sn, NoStatus, -1)
        args == [replacement |-> replacement, prepend_scheme |-> prepend_scheme]
    IN IF replacement.tag = "null" THEN FailOn(fn, TRUE, set_status(sn, first, -2), args)
       ELSE IF replacement.tag = "bad" THEN FailOn(fn, FALSE, set_status(sn, first, -2), args)
       ELSE IF Len(replacement.s) # 1 THEN FailOn(fn, FALSE, set_status(sn, first, -2), args)
       ELSE IF prepend_scheme.tag = "null"
       THEN FailOn(fn, TRUE, set_status(sn, first, -2), args)
       ELSE IF prepend_scheme.tag = "bad"
       THEN FailOn(fn, FALSE, set_status(sn, first, -2), args)
       ELSE IF ~parse_prepend_scheme(prepend_scheme.s).ok
       THEN FailOn(fn, FALSE, set_status(sn, first, -3), args)
       ELSE NewOn(fn, set_status(sn, first, 0), "metaspace",
                  [replacement |-> replacement.s[1],
                   prepend_scheme |-> parse_prepend_scheme(prepend_scheme.s).v,
                   split |-> split], args)

PreTokenizerKinds ==
    {"whitespace", "whitespace_split", "digits", "unicode_scripts", "punctuation", "split",
     "metaspace"}

\* tokenizers_<kind>_free of each pre-tokenizer
pre_tokenizer_free(kind, pre_tokenizer) ==
    free_box("tokenizers_" \o kind \o "_free", pre_tokenizer)

\* ------------------------------------------------------------------ strings and bytes

\* A string is a sequence of characters.  An ASCII character stands for itself;
\* the others are named: E_ACUTE U+00E9, CAP_E_ACUTE U+00C9, ACUTE U+0301
\* (combining), G_DOT U+0120, C_CIRC U+0109, G_CEDILLA U+0123, A_TILDE U+00C3,
\* COPYRIGHT U+00A9, I_GRAVE U+00CC, SOH U+0001.
Chars ==
    {"a", "e", "E", "1", " ", "_", "\\", "\"", "\n", "\t", "SOH", "E_ACUTE", "CAP_E_ACUTE",
     "ACUTE", "G_DOT", "C_CIRC", "G_CEDILLA", "A_TILDE", "COPYRIGHT", "I_GRAVE"}

\* the UTF-8 encoding of one character
utf8(c) ==
    CASE c = "E_ACUTE" -> <<"xC3", "xA9">>
      [] c = "CAP_E_ACUTE" -> <<"xC3", "x89">>
      [] c = "ACUTE" -> <<"xCC", "x81">>
      [] c = "G_DOT" -> <<"xC4", "xA0">>
      [] c = "C_CIRC" -> <<"xC4", "x89">>
      [] c = "G_CEDILLA" -> <<"xC4", "xA3">>
      [] c = "A_TILDE" -> <<"xC3", "x83">>
      [] c = "COPYRIGHT" -> <<"xC2", "xA9">>
      [] c = "I_GRAVE" -> <<"xC3", "x8C">>
      [] OTHER -> <<c>>

\* str::as_bytes
RECURSIVE as_bytes(_)
as_bytes(s) == IF s = <<>> THEN <<>> ELSE utf8(Head(s)) \o as_bytes(Tail(s))

\* the terminating byte of a C string
NUL == "x00"

\* usize::to_string
RECURSIVE to_string(_)
to_string(n) ==
    LET digit(d) == <<"0", "1", "2", "3", "4", "5", "6", "7", "8", "9">>[d + 1]
    IN IF n < 10 THEN <<digit(n)>> ELSE to_string(n \div 10) \o <<digit(n % 10)>>

\* s with every character c replaced by the string f[c]
RECURSIVE FlatMap(_, _)
FlatMap(f, s) == IF s = <<>> THEN <<>> ELSE f[Head(s)] \o FlatMap(f, Tail(s))

\* ------------------------------------------------------------------ Normalizer::normalize

\* canonical decomposition and composition over Chars
Decomposed == [c \in Chars |-> CASE c = "E_ACUTE" -> <<"e", "ACUTE">>
                                 [] c = "CAP_E_ACUTE" -> <<"E", "ACUTE">>
                                 [] OTHER -> <<c>>]

RECURSIVE Composed(_)
Composed(s) ==
    IF Len(s) < 2 THEN s
    ELSE IF s[1] = "e" /\ s[2] = "ACUTE" THEN <<"E_ACUTE">> \o Composed(SubSeq(s, 3, Len(s)))
    ELSE IF s[1] = "E" /\ s[2] = "ACUTE"
    THEN <<"CAP_E_ACUTE">> \o Composed(SubSeq(s, 3, Len(s)))
    ELSE <<s[1]>> \o Composed(Tail(s))

\* char::to_lowercase
Lowered == [c \in Chars |-> CASE c = "E" -> <<"e">>
                              [] c = "CAP_E_ACUTE" -> <<"E_ACUTE">>
                              [] OTHER -> <<c>>]

\* ByteLevel: every byte of the UTF-8 encoding becomes the character that
\* bytes_char() gives it
ByteChar == [c \in Chars |-> CASE c = " " -> <<"G_DOT">>
                               [] c = "\t" -> <<"C_CIRC">>
                               [] c = "E_ACUTE" -> <<"A_TILDE", "COPYRIGHT">>
                               [] c = "ACUTE" -> <<"I_GRAVE", "G_CEDILLA">>
                               [] OTHER -> <<c>>]

\* the characters of s that are not in D
Without(s, D) == SelectSeq(s, LAMBDA c : c \notin D)

\* Strip: whitespace off the chosen ends
RECURSIVE strip_ends(_, _, _)
strip_ends(s, left, right) ==
    IF s = <<>> THEN s
    ELSE IF left /\ s[1] \in WhiteSpace THEN strip_ends(Tail(s), left, right)
    ELSE IF right /\ s[Len(s)] \in WhiteSpace
    THEN strip_ends(SubSeq(s, 1, Len(s) - 1), left, right)
    ELSE s

\* Replace: every occurrence of the (one character) pattern becomes the content
replace(s, pattern, content) ==
    FlatMap([c \in Chars |-> IF <<c>> = pattern THEN content ELSE <<c>>], s)

\* whitespace other than the plain space becomes a space (Nmt, BertNormalizer clean_text)
Spaced == [c \in Chars |-> IF c \in WhiteSpace THEN <<" ">> ELSE <<c>>]

\* control characters that are not whitespace are dropped (Nmt, BertNormalizer clean_text)
Controls == {"SOH"}

\* n.normalize(&mut normalized): the normalized text, by the kind of normalizer;
\* none of these normalizers returns an error
normalize(n, s) ==
    LET k == n.kind
        v == n.val
        accents == IF v.strip_accents = None THEN v.lowercase ELSE v.strip_accents[1]
        cleaned == IF v.clean_text THEN FlatMap(Spaced, Without(s, Controls)) ELSE s
        stripped == IF accents THEN Without(FlatMap(Decomposed, cleaned), {"ACUTE"})
                    ELSE cleaned
    IN Ok(CASE k = "lowercase" -> FlatMap(Lowered, s)
         [] k \in {"nfd", "nfkd"} -> FlatMap(Decomposed, s)
         [] k \in {"nfc", "nfkc"} -> Composed(FlatMap(Decomposed, s))
         [] k = "nmt_normalizer" -> FlatMap(Spaced, Without(s, Controls))
         [] k = "byte_level_normalizer" -> FlatMap(ByteChar, s)
         [] k = "strip_accents" -> Without(s, {"ACUTE"})
         [] k = "strip_normalizer" -> strip_ends(s, v.left, v.right)
         [] k = "bert_normalizer" -> IF v.lowercase THEN FlatMap(Lowered, stripped)
                                     ELSE stripped
         [] k = "replace_normalizer" -> replace(s, v.pattern, v.content)
         [] k = "prepend_normalizer" -> IF s = <<>> THEN s ELSE v.prepend \o s)

\* ------------------------------------------------------------------ *_str

\* the caller's output buffer: output_len bytes, of which the call wrote `bytes`
\* from index 0 on (no buffer at all when output is null)
Buffer(outNull, output_len, bytes) ==
    IF outNull THEN NoBuf ELSE [len |-> output_len, bytes |-> bytes, written |-> bytes # <<>>]

\* the return of a *_normalize_str or *_pre_tokenize_str call: `need` is the
\* required size the call computed (0 when it returned before computing it)
StrReturn(fn, h, input, outNull, output_len, sn, nullArg, st, ret, e, need, bytes) ==
    /\ ~crashed
    /\ lastError' = ApplyErr(e)
    /\ call' = [Call(fn, nullArg, FALSE, st, ret, MsgOf(e), h) EXCEPT
                    !.input = input, !.outNull = outNull, !.outLen = output_len,
                    !.need = need, !.statusNull = sn]
    /\ outbuf' = Buffer(outNull, output_len, bytes)
    /\ built' = NoBuilt
    /\ got' = [asked |-> FALSE, ptr |-> None]
    /\ UNCHANGED <<crashed, engine, threads>>
    /\ HeapSame

\* a plausible slip: the fill returns the bytes written, the terminator included
copy_normalized_counting_nul(fn, h, input, outNull, output_len, sn, result_bytes) ==
    LET required_len == Len(result_bytes) + 1
        Return(st, ret, e, bytes) ==
            StrReturn(fn, h, input, outNull, output_len, sn, FALSE, st, ret, e, required_len, bytes)
    IN IF outNull THEN Return(Status(0), required_len, ErrKeep, <<>>)
       ELSE IF output_len < required_len
       THEN Return(Status(-2), required_len,
                   [op |-> "set", m |-> [text |-> "Output buffer too small",
                                         args |-> <<required_len, output_len>>]], <<>>)
       ELSE Return(Status(0), required_len, ErrKeep, result_bytes \o <<NUL>>)

\* a plausible slip: a buffer that is too small is filled as far as it goes
copy_normalized_truncating(fn, h, input, outNull, output_len, sn, result_bytes) ==
    LET required_len == Len(result_bytes) + 1
        Return(st, ret, e, bytes) ==
            StrReturn(fn, h, input, outNull, output_len, sn, FALSE, st, ret, e, required_len, bytes)
    IN IF outNull THEN Return(Status(0), required_len, ErrKeep, <<>>)
       ELSE IF output_len < required_len
       THEN Return(Status(-2), required_len,
                   [op |-> "set", m |-> [text |-> "Output buffer too small",
                                         args |-> <<required_len, output_len>>]],
                   SubSeq(result_bytes \o <<NUL>>, 1, output_len))
       ELSE Return(Status(0), Len(result_bytes), ErrKeep, result_bytes \o <<NUL>>)

\* the end of every *_normalize_str, from `let required_len` on: the size query,
\* the size check and the copy
copy_normalized(fn, h, input, outNull, output_len, sn, result_bytes) ==
    LET required_len == Len(result_bytes) + 1
        Return(st, ret, e, bytes) ==
            StrReturn(fn, h, input, outNull, output_len, sn, FALSE, st, ret, e, required_len, bytes)
    IN IF outNull THEN Return(Status(0), required_len, ErrKeep, <<>>)
       ELSE IF output_len < required_len
       THEN Return(Status(-2), required_len,
                   [op |-> "set", m |-> [text |-> "Output buffer too small",
                                         args |-> <<required_len, output_len>>]], <<>>)
       ELSE Return(Status(0), Len(result_bytes), ErrKeep, result_bytes \o <<NUL>>)

\* tokenizers_<kind>_normalize_str of each normalizer: normalize_with of
\* unicode.rs, and the same body written out in the other files
normalize_str(kind, normalizer, input, outNull, output_len, sn) ==
    LET fn == "tokenizers_" \o kind \o "_normalize_str"
        normalized == normalize(heap[normalizer], input.s)
        Return(nullArg, st, e) ==
            StrReturn(fn, normalizer, input, outNull, output_len, sn, nullArg, st, 0, e, 0, <<>>)
    IN IF sn THEN Return(FALSE, NoStatus, ErrKeep)
       ELSE IF normalizer = NullPtr \/ input.tag = "null"
       THEN Return(TRUE, Started, ErrSet("Normalizer and input cannot be null"))
       ELSE IF input.tag = "bad" THEN Return(FALSE, Started, ErrSet("Invalid UTF-8 input"))
       ELSE IF ~normalized.ok THEN Return(FALSE, Status(-3), ErrSet("Normalization failed"))
       ELSE copy_normalized(fn, normalizer, input, outNull, output_len, sn,
                            as_bytes(normalized.v))

\* ------------------------------------------------------------------ PreTokenizer::pre_tokenize

Reverse(s) == [i \in 1..Len(s) |-> s[Len(s) + 1 - i]]

\* the pattern p occurs in s at the character index i
At(s, i, p) == i + Len(p) - 1 <= Len(s) /\ SubSeq(s, i, i + Len(p) - 1) = p

\* Pattern::find_matches: the text cut into the occurrences of one of the
\* (non-empty) patterns P, marked m, and the stretches between them; a and b
\* are character offsets, b exclusive
RECURSIVE find_matches(_, _, _, _)
find_matches(s, P, i, acc) ==
    IF i > Len(s) THEN acc
    ELSE IF \E p \in P : At(s, i, p)
    THEN LET p == CHOOSE q \in P : At(s, i, q)
         IN find_matches(s, P, i + Len(p),
                         Append(acc, [a |-> i - 1, b |-> i - 1 + Len(p), m |-> TRUE]))
    ELSE IF acc # <<>> /\ ~acc[Len(acc)].m
    THEN find_matches(s, P, i + 1, [acc EXCEPT ![Len(acc)].b = i])
    ELSE find_matches(s, P, i + 1, Append(acc, [a |-> i - 1, b |-> i, m |-> FALSE]))

\* a character class as a pattern
OneOf(D) == {<<c>> : c \in D}

\* the classes of the regular expression \w+|[^\w\s]+ of Whitespace
WordClass(c) ==
    IF c \in WhiteSpace THEN "s"
    ELSE IF c \in {"\\", "\"", "SOH"} THEN "o"
    ELSE "w"

\* find_matches of \w+|[^\w\s]+ : the maximal runs of word characters and of
\* other non-space characters are the matches
RECURSIVE find_runs(_, _, _)
find_runs(s, i, acc) ==
    IF i > Len(s) THEN acc
    ELSE IF i > 1 /\ WordClass(s[i]) = WordClass(s[i - 1])
    THEN find_runs(s, i + 1, [acc EXCEPT ![Len(acc)].b = i])
    ELSE find_runs(s, i + 1,
                   Append(acc, [a |-> i - 1, b |-> i, m |-> WordClass(s[i]) # "s"]))

\* Invert(pattern)
Inverted(ms) == [i \in DOMAIN ms |-> [ms[i] EXCEPT !.m = ~@]]

\* the fold of MergedWithPrevious, Contiguous and (over the reversed matches)
\* MergedWithNext
RECURSIVE merge_matches(_, _, _, _)
merge_matches(ms, behavior, previous_match, acc) ==
    IF ms = <<>> THEN acc
    ELSE LET x == Head(ms)
             last == acc[Len(acc)]
             joined == /\ acc # <<>>
                       /\ IF behavior = "contiguous" THEN x.m = previous_match
                          ELSE x.m /\ ~previous_match
             grown == [a |-> Min(last.a, x.a), b |-> last.b + x.b - Min(last.b, x.b),
                       m |-> FALSE]
         IN merge_matches(Tail(ms), behavior, x.m,
                          IF joined THEN [acc EXCEPT ![Len(acc)] = grown]
                          ELSE Append(acc, [x EXCEPT !.m = FALSE]))

\* NormalizedString::split: the matches regrouped by the SplitDelimiterBehavior
split_matches(ms, behavior) ==
    CASE behavior = "removed" -> SelectSeq(ms, LAMBDA x : ~x.m)
      [] behavior = "isolated" -> ms
      [] behavior = "merged_with_next" ->
            Reverse(merge_matches(Reverse(ms), behavior, FALSE, <<>>))
      [] OTHER -> merge_matches(ms, behavior, FALSE, <<>>)

\* the script of a character, as UnicodeScripts sees it
Script(c) ==
    IF c = " " THEN "Any"
    ELSE IF c \in {"a", "e", "E", "E_ACUTE", "CAP_E_ACUTE"} THEN "Latin"
    ELSE "Common"

\* UnicodeScripts: a new piece starts at every character whose script is not
\* Any and differs from the script of the last character that had one
RECURSIVE script_pieces(_, _, _, _)
script_pieces(s, i, last_script, acc) ==
    IF i > Len(s) THEN acc
    ELSE LET script == Script(s[i])
             next == IF script = "Any" THEN last_script ELSE script
         IN IF acc = <<>> \/ (script # "Any" /\ script # last_script)
            THEN script_pieces(s, i + 1, next, Append(acc, [a |-> i - 1, b |-> i, m |-> FALSE]))
            ELSE script_pieces(s, i + 1, next, [acc EXCEPT ![Len(acc)].b = i])

\* Metaspace: spaces become the replacement, the replacement is prepended by
\* the scheme, and the text is split before every replacement (MergedWithNext);
\* the prepended character lies at offset 0 of the input
metaspace_splits(v, s) ==
    LET rep == v.replacement
        replaced == [i \in 1..Len(s) |-> IF s[i] = " " THEN rep ELSE s[i]]
        prepend == v.prepend_scheme # "never" /\ (replaced = <<>> \/ replaced[1] # rep)
        shift == IF prepend THEN 1 ELSE 0
        n == IF prepend THEN <<rep>> \o replaced ELSE replaced
        whole == IF n = <<>> THEN <<>> ELSE <<[a |-> 0, b |-> Len(n), m |-> FALSE]>>
        ms == IF v.split
              THEN split_matches(find_matches(n, {<<rep>>}, 1, <<>>), "merged_with_next")
              ELSE whole
        back(k) == IF k < shift THEN 0 ELSE k - shift
    IN [i \in DOMAIN ms |-> [token |-> SubSeq(n, ms[i].a + 1, ms[i].b),
                             a |-> back(ms[i].a), b |-> back(ms[i].b)]]

\* pt.pre_tokenize(&mut pretokenized): the splits, each with its text and its
\* character offsets in the input; none of these pre-tokenizers returns an error
pre_tokenize(pt, s) ==
    LET k == pt.kind
        v == pt.val
        found == find_matches(s, {v.pattern}, 1, <<>>)
        cut(ms) == [i \in DOMAIN ms |-> [token |-> SubSeq(s, ms[i].a + 1, ms[i].b),
                                         a |-> ms[i].a, b |-> ms[i].b]]
    IN Ok(CASE k = "whitespace" ->
                 cut(split_matches(Inverted(find_runs(s, 1, <<>>)), "removed"))
            [] k = "whitespace_split" ->
                 cut(split_matches(find_matches(s, OneOf(WhiteSpace), 1, <<>>), "removed"))
            [] k = "digits" ->
                 cut(split_matches(find_matches(s, OneOf({"1"}), 1, <<>>),
                                   IF v.individual_digits THEN "isolated" ELSE "contiguous"))
            [] k = "punctuation" ->
                 cut(split_matches(find_matches(s, OneOf({"\\", "\"", "_"}), 1, <<>>),
                                   v.behavior))
            [] k = "split" ->
                 cut(split_matches(IF v.invert THEN Inverted(found) ELSE found, v.behavior))
            [] k = "unicode_scripts" -> cut(script_pieces(s, 1, "None", <<>>))
            [] k = "metaspace" -> metaspace_splits(v, s))

\* get_splits(OffsetReferential::Original, offset_type): the offsets in
\* characters or in bytes of the input
get_splits(splits, s, offset_type) ==
    LET at(k) == IF offset_type = "Char" THEN k ELSE Len(as_bytes(SubSeq(s, 1, k)))
    IN [i \in DOMAIN splits |->
           [token |-> splits[i].token, start |-> at(splits[i].a), end |-> at(splits[i].b)]]

\* ------------------------------------------------------------------ pre_tokenizers/*.rs: JSON

\* the escapes written by whitespace.rs, whitespace_split.rs and metaspace.rs,
\* and those written by split.rs, digits.rs, punctuation.rs and unicode_scripts.rs
TwoEscapes == {"\\", "\""}
FiveEscapes == {"\\", "\"", "\n", "\r", "\t"}

\* token.replace('\\', "\\\\").replace('"', "\\\"")..., and the match over the
\* characters of digits.rs and punctuation.rs
escape(token, escapes) ==
    FlatMap([c \in Chars |->
                IF c \notin escapes THEN <<c>>
                ELSE <<"\\", CASE c = "\n" -> "n" [] c = "\r" -> "r" [] c = "\t" -> "t"
                               [] OTHER -> c>>], token)

\* {"token":"<escaped>","offsets":[<start>,<end>]}
json_object(split, escapes) ==
    <<"{", "\"", "t", "o", "k", "e", "n", "\"", ":", "\"">> \o escape(split.token, escapes)
        \o <<"\"", ",", "\"", "o", "f", "f", "s", "e", "t", "s", "\"", ":", "[">>
        \o to_string(split.start) \o <<",">> \o to_string(split.end) \o <<"]", "}">>

\* the objects joined by commas
RECURSIVE json_objects(_, _)
json_objects(splits, escapes) ==
    IF splits = <<>> THEN <<>>
    ELSE IF Len(splits) = 1 THEN json_object(splits[1], escapes)
    ELSE json_object(splits[1], escapes) \o <<",">> \o json_objects(Tail(splits), escapes)

to_json(splits, escapes) == <<"[">> \o json_objects(splits, escapes) \o <<"]">>

\* a copy that leaves out the terminating NUL
copy_out_unterminated(fn, h, input, outNull, output_len, sn, first, json, small, small_required, fill_required) ==
    LET json_bytes == as_bytes(json)
        required_size == Len(json_bytes) + 1
        Return(st, ret, bytes) ==
            StrReturn(fn, h, input, outNull, output_len, sn, FALSE, st, ret, ErrKeep,
                      required_size, bytes)
    IN IF outNull THEN Return(set_status(sn, first, 0), required_size, <<>>)
       ELSE IF output_len < required_size
       THEN Return(set_status(sn, first, small),
                   IF small_required THEN required_size ELSE 0, <<>>)
       ELSE Return(set_status(sn, first, 0),
                   IF fill_required THEN required_size ELSE Len(json_bytes), json_bytes)

\* a plausible slip: the fill returns the length of the JSON text, as
\* whitespace.rs does, where the file returns required_size
copy_out_content_length(fn, h, input, outNull, output_len, sn, first, json, small, small_required, fill_required) ==
    LET json_bytes == as_bytes(json)
        required_size == Len(json_bytes) + 1
        Return(st, ret, bytes) ==
            StrReturn(fn, h, input, outNull, output_len, sn, FALSE, st, ret, ErrKeep,
                      required_size, bytes)
    IN IF outNull THEN Return(set_status(sn, first, 0), required_size, <<>>)
       ELSE IF output_len < required_size
       THEN Return(set_status(sn, first, small),
                   IF small_required THEN required_size ELSE 0, <<>>)
       ELSE Return(set_status(sn, first, 0), Len(json_bytes), json_bytes \o <<NUL>>)

\* the end of every *_pre_tokenize_str: the size query, the size check and the
\* copy.  small: the status of a buffer that is too small; small_required and
\* fill_required: whether such a call, and a call that filled the buffer,
\* returns required_size (otherwise 0, and json_bytes.len())
copy_out(fn, h, input, outNull, output_len, sn, first, json, small, small_required, fill_required) ==
    LET json_bytes == as_bytes(json)
        required_size == Len(json_bytes) + 1
        Return(st, ret, bytes) ==
            StrReturn(fn, h, input, outNull, output_len, sn, FALSE, st, ret, ErrKeep,
                      required_size, bytes)
    IN IF outNull THEN Return(set_status(sn, first, 0), required_size, <<>>)
       ELSE IF output_len < required_size
       THEN Return(set_status(sn, first, small),
                   IF small_required THEN required_size ELSE 0, <<>>)
       ELSE Return(set_status(sn, first, 0),
                   IF fill_required THEN required_size ELSE Len(json_bytes),
                   json_bytes \o <<NUL>>)

\* a return of 0 before any JSON was built
StrFail(fn, h, input, outNull, output_len, sn, nullArg, st) ==
    StrReturn(fn, h, input, outNull, output_len, sn, nullArg, st, 0, ErrKeep, 0, <<>>)

\* whitespace.rs and whitespace_split.rs, which differ in the type of the handle
whitespace_pre_tokenize_str(kind, pre_tokenizer, input, outNull, output_len, sn) ==
    LET fn == "tokenizers_" \o kind \o "_pre_tokenize_str"
        pretokenized == pre_tokenize(heap[pre_tokenizer], input.s)
        splits == get_splits(pretokenized.v, input.s, "Char")
        Stop(nullArg, st) == StrFail(fn, pre_tokenizer, input, outNull, output_len, sn, nullArg, st)
    IN IF sn THEN Stop(FALSE, NoStatus)
       ELSE IF pre_tokenizer = NullPtr \/ input.tag = "null" THEN Stop(TRUE, Started)
       ELSE IF input.tag = "bad" THEN Stop(FALSE, Status(-2))
       ELSE IF ~pretokenized.ok THEN Stop(FALSE, Status(-3))
       ELSE copy_out(fn, pre_tokenizer, input, outNull, output_len, sn, Started,
                     to_json(splits, TwoEscapes), -4, FALSE, FALSE)

tokenizers_whitespace_pre_tokenize_str(pre_tokenizer, input, outNull, output_len, sn) ==
    whitespace_pre_tokenize_str("whitespace", pre_tokenizer, input, outNull, output_len, sn)

tokenizers_whitespace_split_pre_tokenize_str(pre_tokenizer, input, outNull, output_len, sn) ==
    whitespace_pre_tokenize_str("whitespace_split", pre_tokenizer, input, outNull, output_len,
                                sn)

tokenizers_split_pre_tokenize_str(pre_tokenizer, input, outNull, output_len, sn) ==
    LET fn == "tokenizers_split_pre_tokenize_str"
        first == set_status(sn, NoStatus, -1)
        pretokenized == pre_tokenize(heap[pre_tokenizer], input.s)
        splits == get_splits(pretokenized.v, input.s, "Byte")
        Stop(nullArg, st) == StrFail(fn, pre_tokenizer, input, outNull, output_len, sn, nullArg, st)
    IN IF pre_tokenizer = NullPtr THEN Stop(TRUE, first)
       ELSE IF input.tag = "null" THEN Stop(TRUE, set_status(sn, first, -2))
       ELSE IF input.tag = "bad" THEN Stop(FALSE, set_status(sn, first, -2))
       ELSE IF ~pretokenized.ok THEN Stop(FALSE, set_status(sn, first, -4))
       ELSE copy_out(fn, pre_tokenizer, input, outNull, output_len, sn, first,
                     to_json(splits, FiveEscapes), -5, FALSE, TRUE)

tokenizers_metaspace_pre_tokenize_str(pre_tokenizer, input, outNull, output_len, sn) ==
    LET fn == "tokenizers_metaspace_pre_tokenize_str"
        first == set_status(sn, NoStatus, -1)
        pretokenized == pre_tokenize(heap[pre_tokenizer], input.s)
        splits == get_splits(pretokenized.v, input.s, "Byte")
        Stop(nullArg, st) == StrFail(fn, pre_tokenizer, input, outNull, output_len, sn, nullArg, st)
    IN IF pre_tokenizer = NullPtr \/ input.tag = "null"
       THEN Stop(TRUE, set_status(sn, first, -2))
       ELSE IF input.tag = "bad" THEN Stop(FALSE, set_status(sn, first, -2))
       ELSE IF ~pretokenized.ok THEN Stop(FALSE, set_status(sn, first, -4))
       ELSE copy_out(fn, pre_tokenizer, input, outNull, output_len, sn, first,
                     to_json(splits, TwoEscapes), -5, FALSE, TRUE)

tokenizers_digits_pre_tokenize_str(pre_tokenizer, input, outNull, output_len, sn) ==
    LET fn == "tokenizers_digits_pre_tokenize_str"
        pretokenized == pre_tokenize(heap[pre_tokenizer], input.s)
        splits == get_splits(pretokenized.v, input.s, "Byte")
        Stop(nullArg, st) == StrFail(fn, pre_tokenizer, input, outNull, output_len, sn, nullArg, st)
    IN IF sn \/ pre_tokenizer = NullPtr \/ input.tag = "null"
       THEN Stop(pre_tokenizer = NullPtr \/ input.tag = "null",
                 set_status(sn, NoStatus, -1))
       ELSE IF input.tag = "bad" THEN Stop(FALSE, Status(-2))
       ELSE IF ~pretokenized.ok THEN Stop(FALSE, Status(-3))
       ELSE copy_out(fn, pre_tokenizer, input, outNull, output_len, sn, Started,
                     to_json(splits, FiveEscapes), -4, TRUE, TRUE)

tokenizers_punctuation_pre_tokenize_str(pre_tokenizer, input, outNull, output_len, sn) ==
    LET fn == "tokenizers_punctuation_pre_tokenize_str"
        pretokenized == pre_tokenize(heap[pre_tokenizer], input.s)
        splits == get_splits(pretokenized.v, input.s, "Byte")
        Stop(nullArg, st) == StrFail(fn, pre_tokenizer, input, outNull, output_len, sn, nullArg, st)
        Set(code) == set_status(FALSE, NoStatus, code)
    IN IF sn THEN Stop(FALSE, NoStatus)
       ELSE IF pre_tokenizer = NullPtr THEN Stop(TRUE, Set(-1))
       ELSE IF input.tag = "null" THEN Stop(TRUE, Set(-2))
       ELSE IF input.tag = "bad" THEN Stop(FALSE, Set(-3))
       ELSE IF ~pretokenized.ok THEN Stop(FALSE, Set(-4))
       ELSE copy_out(fn, pre_tokenizer, input, outNull, output_len, sn, NoStatus,
                     to_json(splits, FiveEscapes), -5, TRUE, TRUE)

tokenizers_unicode_scripts_pre_tokenize_str(pre_tokenizer, input, outNull, output_len, sn) ==
    LET fn == "tokenizers_unicode_scripts_pre_tokenize_str"
        pretokenized == pre_tokenize(heap[pre_tokenizer], input.s)
        splits == get_splits(pretokenized.v, input.s, "Byte")
        Stop(nullArg, st) == StrFail(fn, pre_tokenizer, input, outNull, output_len, sn, nullArg, st)
    IN IF pre_tokenizer = NullPtr THEN Stop(TRUE, set_status(sn, NoStatus, -1))
       ELSE IF input.tag = "null" THEN Stop(TRUE, set_status(sn, NoStatus, -2))
       ELSE IF input.tag = "bad" THEN Stop(FALSE, set_status(sn, NoStatus, -2))
       ELSE IF ~pretokenized.ok THEN Stop(FALSE, set_status(sn, NoStatus, -4))
       ELSE copy_out(fn, pre_tokenizer, input, outNull, output_len, sn, NoStatus,
                     to_json(splits, FiveEscapes), -5, FALSE, TRUE)

\* ------------------------------------------------------------------ the BPE engine

\* The engine behind a BPE model handle: the vocabulary (a token's id is its
\* position, from 0), the ordered merge list (a rule's rank is its position,
\* from 0), the cache capacity, the cache (word -> token ids) and the thread
\* that holds the cache's lock for a write, if one does.
NoEngine == [vocab |-> <<>>, merges |-> <<>>, capacity |-> 0, cache |-> <<>>, lock |-> None]

Threads == 1..MaxThreads
Idle == [pc |-> "idle", word |-> <<>>, symbols |-> <<>>, out |-> None]

\* Build: the tables are fixed and the cache starts empty
build_engine(vocab, merges, capacity) ==
    [vocab |-> vocab, merges |-> merges, capacity |-> capacity, cache |-> <<>>, lock |-> None]

token_to_id(vocab, token) == (CHOOSE i \in DOMAIN vocab : vocab[i] = token) - 1

\* the rank of the rule (left, right), if the merge list has one
merge_rank(merges, left, right) ==
    IF \E i \in DOMAIN merges : merges[i] = <<left, right>>
    THEN Some((CHOOSE i \in DOMAIN merges :
                  merges[i] = <<left, right>> /\ \A j \in 1..(i - 1) : merges[j] # merges[i]) - 1)
    ELSE None

\* the positions p at which the adjacent symbols p, p + 1 have a rule
eligible_pairs(merges, symbols) ==
    {p \in 1..(Len(symbols) - 1) : merge_rank(merges, symbols[p], symbols[p + 1]) # None}

\* a plausible slip: the first pair that has a rule, whatever its rank
select_leftmost(merges, symbols) ==
    CHOOSE p \in eligible_pairs(merges, symbols) :
        \A q \in eligible_pairs(merges, symbols) : p <= q

\* the pair of lowest rank, the leftmost of those
select_pair(merges, symbols) ==
    LET r(p) == merge_rank(merges, symbols[p], symbols[p + 1])[1]
    IN CHOOSE p \in eligible_pairs(merges, symbols) :
          \A q \in eligible_pairs(merges, symbols) : r(p) < r(q) \/ (r(p) = r(q) /\ p <= q)

\* the two symbols at p, p + 1 replaced by the merged symbol
apply_merge(symbols, p) ==
    SubSeq(symbols, 1, p - 1) \o <<symbols[p] \o symbols[p + 1]>>
        \o SubSeq(symbols, p + 2, Len(symbols))

\* one symbol per character; a character outside the vocabulary, with neither
\* unk_token nor byte_fallback configured, fails the word
initial_symbols(vocab, word) ==
    IF \A i \in DOMAIN word : \E k \in DOMAIN vocab : vocab[k] = <<word[i]>>
    THEN Ok([i \in DOMAIN word |-> <<word[i]>>])
    ELSE Err("UnmappableCharacter")

\* Cache: get, set (an insert beyond the capacity is dropped) and clear
cache_get(cache, word) == IF word \in DOMAIN cache THEN Some(cache[word]) ELSE None

\* a plausible slip: the capacity is never looked at
cache_set_unbounded(cache, capacity, word, ids) ==
    [w \in DOMAIN cache \cup {word} |-> IF w = word THEN ids ELSE cache[w]]

cache_set(cache, capacity, word, ids) ==
    IF word \notin DOMAIN cache /\ Cardinality(DOMAIN cache) >= capacity THEN cache
    ELSE [w \in DOMAIN cache \cup {word} |-> IF w = word THEN ids ELSE cache[w]]

\* a plausible slip: the lookup does not care whether an insert is under way
cache_read_unlocked(e, word) == cache_get(e.cache, word)

\* the lookup of a call: a miss while another call holds the lock for a write
cache_read(e, word) == IF e.lock = None THEN cache_get(e.cache, word) ELSE None

\* the entry as it stands while its ids are being written
partial_entry(ids) == SubSeq(ids, 1, Len(ids) - 1)

\* a call that belongs to the engine alone
EngineCall == UNCHANGED <<heap, given, released, lastError, call, built, outbuf, got, crashed>>

\* tokenize-one-word, step 1 to 3: the cache lookup and, on a miss, the split
\* of the word into its initial symbols
tokenize_begin(t, word) ==
    /\ threads[t].pc = "idle"
    /\ LET hit == cache_read(engine, word)
           init == initial_symbols(engine.vocab, word)
       IN threads' = [threads EXCEPT ![t] =
              IF hit # None THEN [pc |-> "done", word |-> word, symbols |-> <<>>, out |-> Ok(hit[1])]
              ELSE IF ~init.ok THEN [pc |-> "done", word |-> word, symbols |-> <<>>, out |-> init]
              ELSE [pc |-> "merge", word |-> word, symbols |-> init.v, out |-> None]]
    /\ UNCHANGED engine
    /\ EngineCall

\* step 4, one round of the merge loop
merge_step(t) ==
    /\ threads[t].pc = "merge"
    /\ eligible_pairs(engine.merges, threads[t].symbols) # {}
    /\ threads' = [threads EXCEPT ![t].symbols =
                      apply_merge(@, select_pair(engine.merges, threads[t].symbols))]
    /\ UNCHANGED engine
    /\ EngineCall

\* step 5, when no adjacent pair has a rule: the ids of the symbols, and the
\* start of the insert into the cache, which is skipped when another call
\* holds the lock or the cache takes no new entry
tokenize_end(t) ==
    /\ threads[t].pc = "merge"
    /\ eligible_pairs(engine.merges, threads[t].symbols) = {}
    /\ LET ids == [i \in DOMAIN threads[t].symbols |->
                      token_to_id(engine.vocab, threads[t].symbols[i])]
           written == cache_set(engine.cache, engine.capacity, threads[t].word,
                                partial_entry(ids))
       IN IF engine.lock = None /\ threads[t].word \in DOMAIN written
          THEN /\ threads' = [threads EXCEPT ![t].pc = "insert", ![t].out = Ok(ids)]
               /\ engine' = [engine EXCEPT !.cache = written, !.lock = Some(t)]
          ELSE /\ threads' = [threads EXCEPT ![t].pc = "done", ![t].out = Ok(ids)]
               /\ UNCHANGED engine
    /\ EngineCall

\* the end of the insert: the entry is whole and the lock is free again
cache_insert_end(t) ==
    /\ threads[t].pc = "insert"
    /\ threads' = [threads EXCEPT ![t].pc = "done"]
    /\ engine' = [engine EXCEPT !.cache[threads[t].word] = threads[t].out.v, !.lock = None]
    /\ EngineCall

\* the result goes to the caller and the thread is free for the next word
tokenize_return(t) ==
    /\ threads[t].pc = "done"
    /\ threads' = [threads EXCEPT ![t] = Idle]
    /\ UNCHANGED engine
    /\ EngineCall

cache_clear ==
    /\ engine.lock = None
    /\ engine.cache # <<>>
    /\ engine' = [engine EXCEPT !.cache = <<>>]
    /\ UNCHANGED threads
    /\ EngineCall

\* ------------------------------------------------------------------ the caller

Init ==
    /\ heap = <<>>
    /\ given = {}
    /\ released = {}
    /\ lastError = None
    /\ call = Call("", FALSE, FALSE, NoStatus, 0, None, NullPtr)
    /\ built = NoBuilt
    /\ outbuf = NoBuf
    /\ got = [asked |-> FALSE, ptr |-> None]
    /\ crashed = FALSE
    /\ engine = NoEngine
    /\ threads = [t \in Threads |-> Idle]

\* the functions that return a new object
Constructors ==
    {"tokenizers_create", "tokenizers_bpe_create", "tokenizers_bpe_from_file",
     "tokenizers_unigram_new", "tokenizers_wordpiece_from_file",
     "tokenizers_wordlevel_from_file", "tokenizers_split_new", "tokenizers_split_new_regex",
     "tokenizers_metaspace_new", "tokenizers_punctuation_new", "tokenizers_digits_new",
     "tokenizers_unicode_scripts_new", "tokenizers_whitespace_new",
     "tokenizers_whitespace_split_new"}
        \cup {"tokenizers_" \o k \o "_new" : k \in NormalizerKinds}

\* arguments the caller passes
Handles(kind) == {NullPtr} \cup LiveOf(kind)
JsonArgs == {NULL, BADUTF8, Str(ValidTokenizerJson), Str(<<"x">>)}
Texts == SeqsUpTo({"a"}, MaxText) \ {<<>>}
TextArgs == {NULL, BADUTF8, Str(<<"c">>)} \cup {Str(t) : t \in Texts}
PairArgs == {NULL, BADUTF8}
IdArgs == {NULL, Str(<<0>>), Str(<<2>>)}

TokenizerCalls ==
    \/ \E json \in JsonArgs, sn \in BOOLEAN : tokenizers_create(json, sn)
    \/ \E t \in Handles("tokenizer") : tokenizers_free(t)
    \/ \E t \in Handles("tokenizer"), s \in TextArgs, pr \in PairArgs :
          tokenizers_encode(t, s, pr, FALSE)
    \/ \E t \in Handles("tokenizer"), tok \in {NULL, BADUTF8, Str(<<"b">>), Str(<<"c">>)} :
          tokenizers_token_to_id(t, tok, FALSE)
    \/ \E t \in Handles("tokenizer"), id \in {0, 2} : tokenizers_id_to_token(t, id, FALSE)
    \/ \E t \in Handles("tokenizer"), ids \in IdArgs : tokenizers_decode(t, ids, FALSE)
    \/ \E t \in Handles("tokenizer"), stride \in {0, 1}, sd \in {<<0, 1>>, <<3, 1>>, <<0, 2>>} :
          tokenizers_enable_truncation(t, 1, stride, sd[1], sd[2], FALSE)
    \/ \E t \in Handles("tokenizer") : tokenizers_disable_truncation(t, FALSE)
    \/ \E s \in Handles("cstring") : tokenizers_free_string(s)

EncodingCalls ==
    \/ \E e \in Handles("encoding") : tokenizers_encoding_free(e)
    \/ \E e \in Handles("encoding"), bufNull \in BOOLEAN :
          tokenizers_encoding_get_ids(e, bufNull, 1)
    \/ \E e \in Handles("encoding"), bufNull \in BOOLEAN :
          tokenizers_encoding_get_tokens(e, bufNull, 1)
    \/ \E e \in Handles("encoding") : tokenizers_encoding_get_overflowing_count(e)
    \/ \E e \in Handles("encoding"), index \in {0, 1} :
          tokenizers_encoding_get_overflowing(e, index, FALSE)
    \/ \E e \in Handles("encoding"),
          td \in {<<NULL, 0>>, <<BADUTF8, 0>>, <<NULL, 2>>, <<Str(<<"p">>), 1>>} :
          tokenizers_encoding_pad(e, 2, td[1], td[2], FALSE)
    \/ \E e \in Handles("encoding"), direction \in {0, 2} :
          tokenizers_encoding_truncate(e, direction, FALSE)

\* ---- the constructors, with arguments that reach each of their returns

GoodVocabJson == <<"{", <<"a">>, <<"b">>, <<"a", "b">>, <<"b", "a">>, "}">>
VocabArgs == {NULL, BADUTF8, Str(<<"x">>), Str(GoodVocabJson)}
BehaviorArgs == {NULL, BADUTF8, Str("isolated"), Str("invalid")}
PatternArgs == {NULL, BADUTF8, Str(<<",">>), Str(<<"(">>)}
ReplacementArgs == {NULL, BADUTF8, Str(<<"_">>), Str(<<"_", "_">>)}
SchemeArgs == {NULL, BADUTF8, Str("always"), Str("sometimes")}
PathArgs == {NULL, BADUTF8, Str(""), Str("vocab.txt"), Str("missing")}
Components == {"bpe", "unigram", "wordpiece", "wordlevel"} \cup NormalizerKinds
                  \cup PreTokenizerKinds
Room == Cardinality(given) < MaxNew

ModelNew ==
    \/ \E v \in VocabArgs, m \in {NULL, BADUTF8, Str(<<"a">>), Str(<<"a", " ", "b">>),
                                  Str(<<"a", " ", "a">>)},
          d \in {F32(-10), F32(15)}, unk \in {NULL, Str(<<"z">>)}, sn \in BOOLEAN :
          Room /\ tokenizers_bpe_create(v, m, 0, d, unk, NULL, NULL, FALSE, FALSE, sn)
    \/ \E vp \in {NULL, BADUTF8, Str("vocab.json")},
          mp \in {NULL, BADUTF8, Str("merges.txt"), Str("stale.txt"), Str("missing")},
          unk \in {NULL, BADUTF8}, sn \in BOOLEAN :
          Room /\ tokenizers_bpe_from_file(vp, mp, 1, F32(5), unk, TRUE, sn)
    \/ \E v \in {NULL, Str(<<>>), Str(<<Str(<<"a">>)>>), Str(<<Str(<<"a">>), NULL>>),
                 Str(<<BADUTF8>>)},
          unk_id \in {None, Some(0), Some(3)}, sn \in BOOLEAN :
          Room /\ tokenizers_unigram_new(v, unk_id, FALSE, sn)
    \/ \E vp \in PathArgs, unk \in {NULL, BADUTF8, Str("[UNK]")}, pre \in {NULL, BADUTF8},
          ok \in BOOLEAN, sn \in BOOLEAN :
          Room /\ tokenizers_wordpiece_from_file(vp, unk, pre, ok, sn)
    \/ \E vp \in PathArgs, unk \in {NULL, BADUTF8, Str("")}, ok \in BOOLEAN, sn \in BOOLEAN :
          Room /\ tokenizers_wordlevel_from_file(vp, unk, ok, sn)

NormalizerNew ==
    \/ \E sn \in BOOLEAN : Room /\ tokenizers_lowercase_new(sn)
    \/ \E sn \in BOOLEAN : Room /\ tokenizers_nfd_new(sn)
    \/ \E sn \in BOOLEAN : Room /\ tokenizers_nfc_new(sn)
    \/ \E sn \in BOOLEAN : Room /\ tokenizers_nfkd_new(sn)
    \/ \E sn \in BOOLEAN : Room /\ tokenizers_nfkc_new(sn)
    \/ \E sn \in BOOLEAN : Room /\ tokenizers_nmt_normalizer_new(sn)
    \/ \E sn \in BOOLEAN : Room /\ tokenizers_byte_level_normalizer_new(sn)
    \/ \E sn \in BOOLEAN : Room /\ tokenizers_strip_accents_new(sn)
    \/ \E left \in BOOLEAN, sn \in BOOLEAN : Room /\ tokenizers_strip_normalizer_new(left, TRUE, sn)
    \/ \E sa \in {None, Some(TRUE)}, sn \in BOOLEAN :
          Room /\ tokenizers_bert_normalizer_new(TRUE, TRUE, sa, TRUE, sn)
    \/ \E pat \in PatternArgs, c \in {NULL, BADUTF8, Str(<<"b">>)}, sn \in BOOLEAN :
          Room /\ tokenizers_replace_normalizer_new(pat, c, sn)
    \/ \E pre \in {NULL, BADUTF8, Str(<<"_">>)}, sn \in BOOLEAN :
          Room /\ tokenizers_prepend_normalizer_new(pre, sn)

PreTokenizerNew ==
    \/ \E sn \in BOOLEAN : Room /\ tokenizers_whitespace_new(sn)
    \/ \E sn \in BOOLEAN : Room /\ tokenizers_whitespace_split_new(sn)
    \/ \E ind \in BOOLEAN, sn \in BOOLEAN : Room /\ tokenizers_digits_new(ind, sn)
    \/ \E sn \in BOOLEAN : Room /\ tokenizers_unicode_scripts_new(sn)
    \/ \E b \in BehaviorArgs, sn \in BOOLEAN : Room /\ tokenizers_punctuation_new(b, sn)
    \/ \E pat \in PatternArgs, b \in BehaviorArgs, sn \in BOOLEAN :
          Room /\ tokenizers_split_new(pat, b, FALSE, sn)
    \/ \E pat \in PatternArgs, b \in BehaviorArgs, sn \in BOOLEAN :
          Room /\ tokenizers_split_new_regex(pat, b, FALSE, sn)
    \/ \E r \in ReplacementArgs, sch \in SchemeArgs, sn \in BOOLEAN :
          Room /\ tokenizers_metaspace_new(r, sch, TRUE, sn)

ComponentFree ==
    \/ \E m \in Handles("bpe") : tokenizers_bpe_free(m)
    \/ \E k \in {"unigram", "wordpiece", "wordlevel"} : \E m \in Handles(k) : model_free(k, m)
    \/ \E k \in NormalizerKinds : \E n \in Handles(k) : normalizer_free(k, n)
    \/ \E k \in PreTokenizerKinds : \E pt \in Handles(k) : pre_tokenizer_free(k, pt)

\* the constructors and the frees of every object kind, MaxNew objects a run
NextNew ==
    \/ tokenizers_get_last_error
    \/ \E json \in JsonArgs, sn \in BOOLEAN : Room /\ tokenizers_create(json, sn)
    \/ \E t \in Handles("tokenizer") : tokenizers_free(t)
    \/ ModelNew
    \/ NormalizerNew
    \/ PreTokenizerNew
    \/ ComponentFree

SpecNew == Init /\ [][NextNew]_vars

\* a model, a normalizer or a pre-tokenizer next to the tokenizer objects
ComponentCalls ==
    \/ Room /\ tokenizers_bpe_create(Str(GoodVocabJson), Str(<<"a", " ", "b">>), 0,
                                     F32(-10), NULL, NULL, NULL, FALSE, FALSE, FALSE)
    \/ \E m \in Handles("bpe") : tokenizers_bpe_free(m)
    \/ Room /\ tokenizers_lowercase_new(FALSE)
    \/ \E n \in Handles("lowercase") : normalizer_free("lowercase", n)
    \/ Room /\ tokenizers_whitespace_new(FALSE)
    \/ \E pt \in Handles("whitespace") : pre_tokenizer_free("whitespace", pt)

Next ==
    \/ tokenizers_get_last_error
    \/ TokenizerCalls
    \/ EncodingCalls
    \/ ComponentCalls

Spec == Init /\ [][Next]_vars


\* ---- one construction of a BPE model from every small merges text

\* a line of merges_str: tokens separated by one space, after nothing, a space,
\* a '#' or both
MergeTokens == {<<"a">>, <<"b">>}
RECURSIVE JoinParts(_)
JoinParts(ps) ==
    IF ps = <<>> THEN <<>>
    ELSE IF Len(ps) = 1 THEN ps[1]
    ELSE ps[1] \o <<" ">> \o JoinParts(Tail(ps))

MergeLines ==
    {front \o JoinParts(ps) : front \in {<<>>, <<" ">>, <<"#">>, <<" ", "#">>},
                              ps \in SeqsUpTo(MergeTokens, MaxParts)}

RECURSIVE JoinLines(_)
JoinLines(ls) ==
    IF ls = <<>> THEN <<>>
    ELSE IF Len(ls) = 1 THEN ls[1]
    ELSE ls[1] \o <<"\n">> \o JoinLines(Tail(ls))

MergeTexts == {JoinLines(ls) : ls \in SeqsUpTo(MergeLines, MaxLines)}
Dropouts == {F32(-10), F32(0), F32(5), F32(10), F32(15), NaN}
First == call.fn = ""

NextBpe ==
    \/ tokenizers_get_last_error
    \/ First /\ \E m \in MergeTexts :
          tokenizers_bpe_create(Str(GoodVocabJson), Str(m), 0, F32(-10), NULL, NULL, NULL,
                                FALSE, FALSE, FALSE)
    \/ \E v \in VocabArgs, m \in {NULL, BADUTF8, Str(<<"a", " ", "b">>), Str(<<"a">>)},
          d \in Dropouts, unk \in {NULL, BADUTF8, Str(<<"a">>), Str(<<"z">>)} :
          First /\ tokenizers_bpe_create(v, m, 1, d, unk, NULL, NULL, TRUE, TRUE, FALSE)
    \/ \E mp \in {Str("merges.txt"), Str("stale.txt")}, d \in Dropouts :
          First /\ tokenizers_bpe_from_file(Str("vocab.json"), mp, 0, d, NULL, FALSE, FALSE)
    \/ \E m \in Handles("bpe") : tokenizers_bpe_free(m)

SpecBpe == Init /\ [][NextBpe]_vars

\* ---- one normalizer or pre-tokenizer, and the calls of the size protocol on it

NormalizerChars == {"e", "E", " ", "\t", "E_ACUTE", "ACUTE"}
PreTokenizerChars == {"a", "1", " ", "\\", "\"", "\n", "\t", "SOH", "E_ACUTE"}
\* the input arguments passed with the handle h: every short string over chars
\* with a live handle, one string with a null handle
InputArgs(h, chars) ==
    {NULL, BADUTF8, Str(<<>>)}
        \cup IF h = NullPtr THEN {} ELSE {Str(s) : s \in SeqsUpTo(chars, MaxInput)}

\* The output arguments of a call of fn: a size query (with or without a status
\* pointer) or a buffer of no bytes on the first call after the constructor;
\* after a size query of the same function, handle and input that returned S, a
\* buffer of S bytes or of S - 1.
OutputArgs(fn, h, input) ==
    IF call.fn \in Constructors
    THEN {[outNull |-> TRUE, len |-> 0, sn |-> FALSE], [outNull |-> TRUE, len |-> 0, sn |-> TRUE],
          [outNull |-> FALSE, len |-> 0, sn |-> FALSE]}
    ELSE IF call.fn = fn /\ call.arg = h /\ call.input = input /\ call.outNull /\ call.ret > 0
    THEN {[outNull |-> FALSE, len |-> call.ret - d, sn |-> FALSE] : d \in {0, 1}}
    ELSE {}

StrNew ==
    \/ \E k \in {"lowercase", "nfd", "nfc", "nfkd", "nfkc", "nmt_normalizer",
                 "byte_level_normalizer", "strip_accents"} :
          First /\ plain_new("tokenizers_" \o k \o "_new", k, <<>>, FALSE)
    \/ \E right \in BOOLEAN : First /\ tokenizers_strip_normalizer_new(TRUE, right, FALSE)
    \/ \E clean_text \in BOOLEAN, strip_accents \in {None, Some(FALSE)} :
          First /\ tokenizers_bert_normalizer_new(clean_text, TRUE, strip_accents, TRUE, FALSE)
    \/ \E content \in {<<>>, <<"E_ACUTE", "e">>} :
          First /\ tokenizers_replace_normalizer_new(Str(<<"e">>), Str(content), FALSE)
    \/ First /\ tokenizers_prepend_normalizer_new(Str(<<"_">>), FALSE)
    \/ First /\ tokenizers_whitespace_new(FALSE)
    \/ First /\ tokenizers_whitespace_split_new(FALSE)
    \/ \E individual_digits \in BOOLEAN : First /\ tokenizers_digits_new(individual_digits, FALSE)
    \/ First /\ tokenizers_unicode_scripts_new(FALSE)
    \/ \E b \in {"removed", "isolated", "merged_with_previous", "merged_with_next",
                 "contiguous"} : First /\ tokenizers_punctuation_new(Str(b), FALSE)
    \/ \E b \in {"removed", "isolated", "merged_with_previous", "merged_with_next",
                 "contiguous"}, invert \in BOOLEAN :
          First /\ tokenizers_split_new(Str(<<" ">>), Str(b), invert, FALSE)
    \/ First /\ tokenizers_split_new_regex(Str(<<"a">>), Str("isolated"), FALSE, FALSE)
    \/ \E scheme \in {"always", "never", "first"}, split \in BOOLEAN :
          First /\ tokenizers_metaspace_new(Str(<<"_">>), Str(scheme), split, FALSE)

StrCalls ==
    \/ \E k \in NormalizerKinds : \E n \in Handles(k) : \E input \in InputArgs(n, NormalizerChars) :
          \E o \in OutputArgs("tokenizers_" \o k \o "_normalize_str", n, input) :
              normalize_str(k, n, input, o.outNull, o.len, o.sn)
    \/ \E pt \in Handles("whitespace") : \E input \in InputArgs(pt, PreTokenizerChars) :
          \E o \in OutputArgs("tokenizers_whitespace_pre_tokenize_str", pt, input) :
              tokenizers_whitespace_pre_tokenize_str(pt, input, o.outNull, o.len, o.sn)
    \/ \E pt \in Handles("whitespace_split") : \E input \in InputArgs(pt, PreTokenizerChars) :
          \E o \in OutputArgs("tokenizers_whitespace_split_pre_tokenize_str", pt, input) :
              tokenizers_whitespace_split_pre_tokenize_str(pt, input, o.outNull, o.len, o.sn)
    \/ \E pt \in Handles("split") : \E input \in InputArgs(pt, PreTokenizerChars) :
          \E o \in OutputArgs("tokenizers_split_pre_tokenize_str", pt, input) :
              tokenizers_split_pre_tokenize_str(pt, input, o.outNull, o.len, o.sn)
    \/ \E pt \in Handles("metaspace") : \E input \in InputArgs(pt, PreTokenizerChars) :
          \E o \in OutputArgs("tokenizers_metaspace_pre_tokenize_str", pt, input) :
              tokenizers_metaspace_pre_tokenize_str(pt, input, o.outNull, o.len, o.sn)
    \/ \E pt \in Handles("digits") : \E input \in InputArgs(pt, PreTokenizerChars) :
          \E o \in OutputArgs("tokenizers_digits_pre_tokenize_str", pt, input) :
              tokenizers_digits_pre_tokenize_str(pt, input, o.outNull, o.len, o.sn)
    \/ \E pt \in Handles("punctuation") : \E input \in InputArgs(pt, PreTokenizerChars) :
          \E o \in OutputArgs("tokenizers_punctuation_pre_tokenize_str", pt, input) :
              tokenizers_punctuation_pre_tokenize_str(pt, input, o.outNull, o.len, o.sn)
    \/ \E pt \in Handles("unicode_scripts") : \E input \in InputArgs(pt, PreTokenizerChars) :
          \E o \in OutputArgs("tokenizers_unicode_scripts_pre_tokenize_str", pt, input) :
              tokenizers_unicode_scripts_pre_tokenize_str(pt, input, o.outNull, o.len, o.sn)

NextStr ==
    \/ tokenizers_get_last_error
    \/ StrNew
    \/ StrCalls

SpecStr == Init /\ [][NextStr]_vars

\* ---- a tokenizer and the calls on it

SpecTokenizer == Init /\ [][TokenizerCalls]_vars

\* ---- the constructors that take a word from a fixed list, with words on the
\* list and off it

ReplacementCases ==
    {NULL, BADUTF8, Str(<<>>), Str(<<"_">>), Str(<<"E_ACUTE">>), Str(<<"_", "_">>)}
SchemeCases ==
    {NULL, BADUTF8, Str("always"), Str("never"), Str("first"), Str("Always"), Str(""),
     Str("sometimes")}
BehaviorCases ==
    {NULL, BADUTF8, Str("removed"), Str("isolated"), Str("merged_with_previous"),
     Str("merged_with_next"), Str("contiguous"), Str("Isolated"), Str(""), Str("merged"),
     Str("invalid")}

NextArgs ==
    \/ \E r \in ReplacementCases, sch \in SchemeCases, split \in BOOLEAN, sn \in BOOLEAN :
          Room /\ tokenizers_metaspace_new(r, sch, split, sn)
    \/ \E b \in BehaviorCases, sn \in BOOLEAN : Room /\ tokenizers_punctuation_new(b, sn)
    \/ \E pat \in PatternArgs, b \in BehaviorCases, invert \in BOOLEAN, sn \in BOOLEAN :
          Room /\ tokenizers_split_new(pat, b, invert, sn)
    \/ \E pat \in PatternArgs, b \in BehaviorCases, invert \in BOOLEAN, sn \in BOOLEAN :
          Room /\ tokenizers_split_new_regex(pat, b, invert, sn)
    \/ \E kind \in {"metaspace", "punctuation", "split"} :
          \E p \in Handles(kind) : pre_tokenizer_free(kind, p)

SpecArgs == Init /\ [][NextArgs]_vars

\* ---- one word through an engine built from the vocabulary and the merges of
\* the spec's scenario, or from tables whose rules overlap

HelloVocab ==
    <<<<"h">>, <<"e">>, <<"l">>, <<"o">>, <<"h", "e">>, <<"l", "l">>, <<"h", "e", "l", "l">>,
      <<"h", "e", "l", "l", "o">>>>
HelloMerges ==
    <<<<<<"h">>, <<"e">>>>, <<<<"l">>, <<"l">>>>, <<<<"h", "e">>, <<"l", "l">>>>,
      <<<<"h", "e", "l", "l">>, <<"o">>>>>>
AbcVocab == <<<<"a">>, <<"b">>, <<"c">>, <<"a", "b">>, <<"b", "c">>, <<"a", "b", "c">>>>
AbcMerges == <<<<<<"b">>, <<"c">>>>, <<<<"a">>, <<"b">>>>, <<<<"a">>, <<"b", "c">>>>>>

\* the two engines, built with the cache disabled
Engines == {build_engine(HelloVocab, HelloMerges, 0), build_engine(AbcVocab, AbcMerges, 0)}

\* the words over the single characters of the vocabulary, and one character
\* outside it
WordsOf(e) ==
    SeqsUpTo({e.vocab[i][1] : i \in {k \in DOMAIN e.vocab : Len(e.vocab[k]) = 1}} \cup {"x"},
             MaxWord)

InitWord ==
    /\ heap = <<>>
    /\ given = {}
    /\ released = {}
    /\ lastError = None
    /\ call = Call("", FALSE, FALSE, NoStatus, 0, None, NullPtr)
    /\ built = NoBuilt
    /\ outbuf = NoBuf
    /\ got = [asked |-> FALSE, ptr |-> None]
    /\ crashed = FALSE
    /\ engine \in Engines
    /\ threads = [t \in Threads |-> Idle]

NextWord ==
    \/ \E w \in WordsOf(engine) : tokenize_begin(1, w)
    \/ merge_step(1)
    \/ tokenize_end(1)
    \/ tokenize_return(1)

SpecWord == InitWord /\ [][NextWord]_vars

\* ---- one caller, word after word through an engine whose cache holds up to
\* MaxCapacity entries, and clears of the cache in between

CachedEngines ==
    {build_engine(tables[1], tables[2], capacity) :
        tables \in {<<HelloVocab, HelloMerges>>, <<AbcVocab, AbcMerges>>},
        capacity \in 0..MaxCapacity}

\* the short words, and the longest token of the vocabulary as a word
CacheWordsOf(e) == {w \in WordsOf(e) : Len(w) <= 2} \cup {e.vocab[Len(e.vocab)]}

InitCache ==
    /\ heap = <<>>
    /\ given = {}
    /\ released = {}
    /\ lastError = None
    /\ call = Call("", FALSE, FALSE, NoStatus, 0, None, NullPtr)
    /\ built = NoBuilt
    /\ outbuf = NoBuf
    /\ got = [asked |-> FALSE, ptr |-> None]
    /\ crashed = FALSE
    /\ engine \in CachedEngines
    /\ threads = [t \in Threads |-> Idle]

NextCache ==
    \/ \E w \in CacheWordsOf(engine) : tokenize_begin(1, w)
    \/ merge_step(1)
    \/ tokenize_end(1)
    \/ cache_insert_end(1)
    \/ tokenize_return(1)
    \/ threads[1].pc = "idle" /\ cache_clear

SpecCache == InitCache /\ [][NextCache]_vars

\* ---- the threads of a process, each with its own words, through one engine

\* the longest token of the vocabulary as a word, the word without its first
\* character, and a word outside the vocabulary
SharedWordsOf(e) == {e.vocab[Len(e.vocab)], Tail(e.vocab[Len(e.vocab)]), <<"x">>}

NextShared ==
    \/ \E t \in Threads, w \in SharedWordsOf(engine) : tokenize_begin(t, w)
    \/ \E t \in Threads : merge_step(t)
    \/ \E t \in Threads : tokenize_end(t)
    \/ \E t \in Threads : cache_insert_end(t)
    \/ \E t \in Threads : tokenize_return(t)
    \/ cache_clear

SpecShared == InitCache /\ [][NextShared]_vars

\* ------------------------------------------------------------------ properties

\* the step was a call of the library other than tokenizers_get_last_error, and
\* call' describes it
Called == ~got'.asked

\* C1: a call that was handed a null pointer for a required argument reports a
\* negative status through its status out-parameter and has not dereferenced the
\* null pointer.
C1_NullArgumentNegativeStatus ==
    call.nullArg => (~call.deref /\ (call.wrote => call.status < 0))

\* C2: when tokenizers_get_last_error is called right after a call that reported
\* a non-zero status, it returns a message, and that message is the one the
\* failing call recorded.
C2_ErrorLeavesItsMessage ==
    (got.asked /\ call.wrote /\ call.status # 0)
        => (got.ptr # None /\ call.msg # None /\ got.ptr = call.msg)

\* C3: a constructor called with a non-null status pointer returns a non-null
\* pointer exactly when it writes status 0; when it returns null the heap is as
\* it was before the call, and when it returns an object that object is new.
C3_PointerIffStatusZero ==
    [][(Called /\ call'.fn \in Constructors /\ call'.wrote)
          => /\ (call'.ret # NullPtr) <=> (call'.status = 0)
             /\ (call'.ret = NullPtr) => (heap' = heap)
             /\ (call'.ret # NullPtr) => (DOMAIN heap' = (DOMAIN heap) \cup {call'.ret}
                                           /\ call'.ret \notin DOMAIN heap)]_vars

\* a build that failed on a merge rule: null, status -5, nothing allocated
C3_Witness ==
    /\ call.fn = "tokenizers_bpe_create"
    /\ call.wrote /\ call.status = -5 /\ call.ret = NullPtr
    /\ built.reached
    /\ heap = <<>>

MatchingFree(kind) ==
    IF kind = "tokenizer" THEN "tokenizers_free"
    ELSE IF kind = "encoding" THEN "tokenizers_encoding_free"
    ELSE IF kind = "cstring" THEN "tokenizers_free_string"
    ELSE "tokenizers_" \o kind \o "_free"

FreeFunctions == {MatchingFree(k) : k \in {"tokenizer", "encoding", "cstring"} \cup Components}

\* C8: an object handed to the caller stays on the heap, unchanged by calls on
\* other handles, until the caller passes it to its matching free function; a
\* free function releases the object it is given and nothing else; free(NULL)
\* changes nothing; every pointer handed out and not yet freed is live.
C8_CallerOwnsEveryObject ==
    /\ [](given \ released = DOMAIN heap)
    /\ [][/\ \A p \in DOMAIN heap :
                \/ /\ p \in DOMAIN heap'
                   /\ (call'.arg # p => heap'[p] = heap[p])
                \/ /\ Called
                   /\ call'.fn = MatchingFree(heap[p].kind)
                   /\ call'.arg = p
          /\ (Called /\ call'.fn \in FreeFunctions /\ call'.arg # NullPtr)
                => (DOMAIN heap' = (DOMAIN heap) \ {call'.arg}
                    /\ released' = released \cup {call'.arg})
          /\ (Called /\ call'.fn \in FreeFunctions /\ call'.arg = NullPtr)
                => (heap' = heap /\ released' = released /\ lastError' = lastError)]_vars

\* the copy returned by tokenizers_encoding_get_overflowing is read after its
\* parent encoding has been freed
C8_Witness ==
    /\ call.fn = "tokenizers_encoding_get_ids"
    /\ call.arg \in DOMAIN heap
    /\ heap[call.arg].origin \in released
    /\ call.ret = 1


\* ---- tokenizers_bpe_create

\* the call was tokenizers_bpe_create with non-null strings, a vocabulary that
\* decodes and parses, and a merges text that decodes
ReadMerges ==
    /\ call.fn = "tokenizers_bpe_create"
    /\ ~call.nullArg
    /\ call.input.vocab.tag = "str"
    /\ ParseVocab(call.input.vocab.s).ok
    /\ call.input.merges.tag = "str"

\* the lines of the text that count: non-empty after trimming, not a comment
AcceptedLines(text) ==
    SelectSeq(Lines(text), LAMBDA l : trim(l) # <<>> /\ trim(l)[1] # "#")

\* the numbers of the lines that count and do not hold exactly two tokens
MalformedLines(text) ==
    {k \in 1..Len(Lines(text)) :
        /\ trim(Lines(text)[k]) # <<>>
        /\ trim(Lines(text)[k])[1] # "#"
        /\ Len(split_whitespace(Lines(text)[k])) # 2}

RulesOf(text) ==
    [k \in 1..Len(AcceptedLines(text)) |->
        <<split_whitespace(AcceptedLines(text)[k])[1],
          split_whitespace(AcceptedLines(text)[k])[2]>>]

C5_MergeListIsAcceptedLines ==
    (ReadMerges /\ built.reached)
        => built.config[1].merges = RulesOf(call.input.merges.s)

\* two different rules: the builder gets them in the order of their lines
C5_Witness ==
    /\ ReadMerges /\ built.reached
    /\ call.input.merges.s = <<"a", " ", "b", "\n", "b", " ", "a">>
    /\ built.config[1].merges = << <<<<"a">>, <<"b">>>>, <<<<"b">>, <<"a">>>> >>

\* C6: when a line that counts does not hold exactly two tokens, the call
\* returns null with status -4 and a message naming the 1-based number, in the
\* original text, of the first such line; nothing is handed to the builder and
\* no model is on the heap.
C6_MalformedLineRejected ==
    (ReadMerges /\ MalformedLines(call.input.merges.s) # {})
        => /\ call.ret = NullPtr
           /\ call.wrote /\ call.status = -4
           /\ call.msg # None /\ lastError = call.msg
           /\ call.msg[1].args[1] =
                  CHOOSE k \in MalformedLines(call.input.merges.s) :
                      \A j \in MalformedLines(call.input.merges.s) : k <= j
           /\ ~built.reached
           /\ heap = <<>>

\* a comment and then a malformed line: line 2 is named
C6_Witness ==
    /\ ReadMerges
    /\ call.input.merges.s = <<"#", "a", "\n", "a">>
    /\ call.status = -4
    /\ call.msg[1].args = <<2, 1>>

\* C7: a dropout above 1.0 handed to tokenizers_bpe_create or
\* tokenizers_bpe_from_file is either rejected (null, non-zero status) or clamped
\* to 1.0 in the configuration that is built; the build does not go ahead
\* without it.  (A negative value is the documented "no dropout" and does not
\* count as supplied here.)
C7_DropoutClampedOrRejected ==
    (/\ call.fn \in {"tokenizers_bpe_create", "tokenizers_bpe_from_file"}
     /\ ~call.nullArg
     /\ built.reached
     /\ ~call.input.dropout.nan
     /\ call.input.dropout.v > 10)
        => \/ call.ret = NullPtr /\ call.status # 0
           \/ built.config[1].dropout = Some(F32(10))

\* ---- the size protocol

StrFunctions ==
    {"tokenizers_" \o k \o "_normalize_str" : k \in NormalizerKinds}
        \cup {"tokenizers_" \o k \o "_pre_tokenize_str" : k \in PreTokenizerKinds}

\* the last call was a size query with a valid handle, valid UTF-8 input and a
\* status pointer
SizeQuery ==
    /\ call.fn \in StrFunctions
    /\ call.outNull
    /\ ~call.statusNull
    /\ call.arg \in Live
    /\ call.input.tag = "str"

\* the step calls the same function again with the same handle and input, a
\* status pointer and a buffer of exactly the number of bytes the query returned
FillAfterQuery ==
    /\ Called
    /\ call'.fn = call.fn
    /\ call'.arg = call.arg
    /\ call'.input = call.input
    /\ ~call'.statusNull
    /\ ~call'.outNull
    /\ call'.outLen = call.ret

\* C9: a size query (output = null) on a valid handle and valid UTF-8 input
\* sets status 0 and returns a size S >= 1; the following call with the same
\* handle and input and a buffer of exactly S bytes sets status 0, computes the
\* same required size and fills the buffer with S-1 content bytes followed by
\* one NUL at index S-1.
C9_TwoCallProtocol ==
    /\ [](SizeQuery => call.wrote /\ call.status = 0 /\ call.ret >= 1)
    /\ [][(SizeQuery /\ FillAfterQuery)
             => /\ call'.wrote
                /\ call'.status = 0
                /\ call'.need = call.ret
                /\ outbuf'.written
                /\ Len(outbuf'.bytes) = call.ret
                /\ outbuf'.bytes[call.ret] = NUL
                /\ \A i \in 1..(call.ret - 1) : outbuf'.bytes[i] # NUL]_vars

\* both calls made: NFD of U+00E9 needs 4 bytes, and a 4-byte buffer was filled
C9_Witness ==
    /\ call.fn = "tokenizers_nfd_normalize_str"
    /\ call.input = Str(<<"E_ACUTE">>)
    /\ ~call.outNull
    /\ call.outLen = 4
    /\ call.need = 4
    /\ outbuf.written

\* ---- the JSON text, read by the rules of RFC 8259

\* the bytes a JSON string may not hold unescaped
ControlBytes == {"\n", "\r", "\t", "SOH", NUL}

\* the byte each two-character escape stands for
EscapedByte ==
    [c \in {"\"", "\\", "/", "b", "f", "n", "r", "t"} |->
        CASE c = "b" -> "BS" [] c = "f" -> "FF" [] c = "n" -> "\n" [] c = "r" -> "\r"
          [] c = "t" -> "\t" [] OTHER -> c]

\* the string whose opening quote stands before index i: its decoded bytes and
\* the index after its closing quote
RECURSIVE read_string(_, _, _)
read_string(t, i, acc) ==
    IF i > Len(t) \/ t[i] \in ControlBytes THEN [ok |-> FALSE, v |-> acc, next |-> i]
    ELSE IF t[i] = "\"" THEN [ok |-> TRUE, v |-> acc, next |-> i + 1]
    ELSE IF t[i] # "\\" THEN read_string(t, i + 1, Append(acc, t[i]))
    ELSE IF i < Len(t) /\ t[i + 1] \in DOMAIN EscapedByte
    THEN read_string(t, i + 2, Append(acc, EscapedByte[t[i + 1]]))
    ELSE [ok |-> FALSE, v |-> acc, next |-> i]

\* the number that starts at index i; v is -1 until a digit is read
RECURSIVE read_number(_, _, _)
read_number(t, i, v) ==
    IF i <= Len(t) /\ \E n \in 0..9 : to_string(n) = <<t[i]>>
    THEN read_number(t, i + 1,
                     (IF v < 0 THEN 0 ELSE 10 * v) + CHOOSE n \in 0..9 : to_string(n) = <<t[i]>>)
    ELSE [ok |-> v >= 0, v |-> v, next |-> i]

TokenKey == <<"{", "\"", "t", "o", "k", "e", "n", "\"", ":", "\"">>
OffsetsKey == <<",", "\"", "o", "f", "f", "s", "e", "t", "s", "\"", ":", "[">>

\* the object {"token":string,"offsets":[number,number]} that starts at index i
read_object(t, i) ==
    LET token == read_string(t, i + Len(TokenKey), <<>>)
        start == read_number(t, token.next + Len(OffsetsKey), -1)
        end == read_number(t, start.next + 1, -1)
    IN [ok |-> /\ At(t, i, TokenKey)
               /\ token.ok
               /\ At(t, token.next, OffsetsKey)
               /\ start.ok
               /\ At(t, start.next, <<",">>)
               /\ end.ok
               /\ At(t, end.next, <<"]", "}">>),
        v |-> [token |-> token.v, start |-> start.v, end |-> end.v],
        next |-> end.next + 2]

\* the objects from index i to the closing bracket, which ends the text
RECURSIVE read_objects(_, _, _)
read_objects(t, i, acc) ==
    LET object == read_object(t, i)
    IN IF ~object.ok THEN Err("object")
       ELSE IF At(t, object.next, <<"]">>) /\ object.next = Len(t)
       THEN Ok(Append(acc, object.v))
       ELSE IF At(t, object.next, <<",">>)
       THEN read_objects(t, object.next + 1, Append(acc, object.v))
       ELSE Err("array")

read_array(t) ==
    IF t = <<"[", "]">> THEN Ok(<<>>)
    ELSE IF At(t, 1, <<"[">>) THEN read_objects(t, 2, <<>>)
    ELSE Err("array")

\* C10: the text a *_pre_tokenize_str function writes is a well-formed JSON
\* array of objects {"token": string, "offsets": [start, end]}, one for each
\* split in order, and each "token" string decodes by the JSON rules to exactly
\* the text of its split.
C10_JsonRoundTrips ==
    (/\ call.fn \in {"tokenizers_" \o k \o "_pre_tokenize_str" : k \in PreTokenizerKinds}
     /\ outbuf.written)
        => LET text == SubSeq(outbuf.bytes, 1, Len(outbuf.bytes) - 1)
               splits == pre_tokenize(heap[call.arg], call.input.s).v
               array == read_array(text)
           IN /\ array.ok
              /\ Len(array.v) = Len(splits)
              /\ \A i \in DOMAIN splits :
                    /\ array.v[i].token = as_bytes(splits[i].token)
                    /\ array.v[i].start <= array.v[i].end

\* ---- what *_normalize_str returns

NormalizeStrFunctions == {"tokenizers_" \o k \o "_normalize_str" : k \in NormalizerKinds}

\* the bytes of the normalized text of the last call (a live handle and valid
\* UTF-8 input)
NormalizedBytes == as_bytes(normalize(heap[call.arg], call.input.s).v)

SizedPreTokenizers == {"split", "metaspace", "digits", "punctuation", "unicode_scripts"}
ZeroOnError == {"split", "metaspace", "unicode_scripts"}

\* C13: for split, metaspace, digits, punctuation and unicode_scripts a fill
\* that succeeds returns the number of bytes written, the terminator included,
\* and a fill that follows a size query of the same input with a buffer of the
\* size the query returned returns that same size; for split, metaspace and
\* unicode_scripts a call that sets a non-zero status, a too-small buffer
\* included, returns 0.
C13_FillReturnsRequiredSize ==
    /\ [](\A k \in SizedPreTokenizers :
            (/\ call.fn = "tokenizers_" \o k \o "_pre_tokenize_str"
             /\ call.wrote
             /\ ~call.outNull)
                => IF call.status = 0
                   THEN /\ outbuf.written
                        /\ call.ret = Len(outbuf.bytes)
                        /\ outbuf.bytes[call.ret] = NUL
                   ELSE /\ ~outbuf.written
                        /\ k \in ZeroOnError => call.ret = 0)
    /\ [](\A k \in ZeroOnError :
            (/\ call.fn = "tokenizers_" \o k \o "_pre_tokenize_str"
             /\ call.wrote
             /\ call.status # 0) => call.ret = 0)
    /\ [][\A k \in SizedPreTokenizers :
            (/\ call.fn = "tokenizers_" \o k \o "_pre_tokenize_str"
             /\ SizeQuery
             /\ FillAfterQuery) => call'.ret = call.ret]_vars

\* a fill by the digits pre-tokenizer: the buffer of the queried size is full
\* and its size is returned
C13_Witness ==
    /\ call.fn = "tokenizers_digits_pre_tokenize_str"
    /\ call.input = Str(<<"a", "1">>)
    /\ outbuf.written
    /\ call.status = 0
    /\ call.ret = call.outLen
    /\ call.ret = Len(outbuf.bytes)
    /\ call.ret > 1

\* ---- tokenizers_encoding_pad

\* C14: tokenizers_encoding_pad on a live encoding with direction 0 or 1 and a
\* pad token that is null or valid UTF-8 sets status 0, returns a non-zero
\* value and leaves the encoding with at least target_length ids.
C14_PadSucceeds ==
    (/\ call.fn = "tokenizers_encoding_pad"
     /\ call.arg \in LiveOf("encoding")
     /\ call.input.direction \in {0, 1}
     /\ call.input.pad_token.tag \in {"null", "str"})
        => /\ call.wrote
           /\ call.status = 0
           /\ call.ret # 0
           /\ Len(heap[call.arg].val.ids) >= call.input.target_length

\* ---- the merge loop

\* the rule that the adjacent symbols at p have, as its position in the merge list
RankAt(symbols, p) ==
    CHOOSE i \in DOMAIN engine.merges :
        /\ engine.merges[i] = <<symbols[p], symbols[p + 1]>>
        /\ \A j \in 1..(i - 1) : engine.merges[j] # engine.merges[i]

HasRule(symbols, p) ==
    \E i \in DOMAIN engine.merges : engine.merges[i] = <<symbols[p], symbols[p + 1]>>

\* C15: a step of the merge loop joins two adjacent symbols that have a rule,
\* no adjacent pair has a rule of lower rank, and no pair to their left has the
\* same rule; the loop ends only when no adjacent pair has a rule; with the
\* vocabulary {h, e, l, o, he, ll, hell, hello} and the merges (h,e), (l,l),
\* (he,ll), (hell,o) the word "hello" becomes the single id 7 and "hell" the
\* single id 6.
C15_LowestRankLeftmost ==
    /\ [](\A t \in Threads :
            (/\ engine.vocab = HelloVocab
             /\ threads[t].pc = "done"
             /\ threads[t].word \in {<<"h", "e", "l", "l", "o">>, <<"h", "e", "l", "l">>})
                => threads[t].out = Ok(<<Len(threads[t].word) + 2>>))
    /\ [][\A t \in Threads :
            LET old == threads[t].symbols
                new == threads'[t].symbols
                pairs == 1..(Len(old) - 1)
            IN /\ (threads[t].pc = "merge" /\ threads'[t].pc = "merge" /\ new # old)
                     => \E p \in pairs :
                           /\ HasRule(old, p)
                           /\ Len(new) = Len(old) - 1
                           /\ new[p] = old[p] \o old[p + 1]
                           /\ \A i \in 1..(p - 1) : new[i] = old[i]
                           /\ \A i \in (p + 1)..Len(new) : new[i] = old[i + 1]
                           /\ \A q \in pairs :
                                 HasRule(old, q) =>
                                     \/ RankAt(old, p) < RankAt(old, q)
                                     \/ RankAt(old, p) = RankAt(old, q) /\ p <= q
               /\ (threads[t].pc = "merge" /\ threads'[t].pc = "done")
                     => \A q \in pairs : ~HasRule(old, q)]_vars

\* "hello" has gone through its four merges and come out as the id 7
C15_Witness ==
    /\ engine.vocab = HelloVocab
    /\ threads[1].pc = "done"
    /\ threads[1].word = <<"h", "e", "l", "l", "o">>
    /\ threads[1].symbols = <<<<"h", "e", "l", "l", "o">>>>
    /\ threads[1].out = Ok(<<7>>)

\* ---- the cache

\* the merge loop run to its end on the symbols
RECURSIVE MergeAll(_, _)
MergeAll(merges, symbols) ==
    IF eligible_pairs(merges, symbols) = {} THEN symbols
    ELSE MergeAll(merges, apply_merge(symbols, select_pair(merges, symbols)))

\* what tokenize-one-word gives for the word with no cache at all
Uncached(word) ==
    LET init == initial_symbols(engine.vocab, word)
        final == MergeAll(engine.merges, init.v)
    IN IF ~init.ok THEN init
       ELSE Ok([i \in DOMAIN final |-> token_to_id(engine.vocab, final[i])])

\* C16: with dropout off, a call of tokenize-one-word returns what the word
\* gives with no cache, whatever the capacity of the cache and whatever it
\* holds from the words before (nothing, some entries, as many as its capacity,
\* nothing again after a clear); every entry of the cache that is not being
\* written is that result for its word, and the cache never holds more entries
\* than its capacity.
C16_CacheTransparent ==
    /\ \A t \in Threads : threads[t].pc = "done" => threads[t].out = Uncached(threads[t].word)
    /\ \A w \in DOMAIN engine.cache :
          (engine.lock = None \/ w # threads[engine.lock[1]].word)
              => Ok(engine.cache[w]) = Uncached(w)
    /\ Cardinality(DOMAIN engine.cache) <= engine.capacity

\* "abc" answered from a full cache: the call is done without a merge round
C16_Witness ==
    /\ engine.capacity = MaxCapacity
    /\ Cardinality(DOMAIN engine.cache) = MaxCapacity
    /\ threads[1].pc = "done"
    /\ threads[1].word = <<"a", "b", "c">>
    /\ threads[1].symbols = <<>>
    /\ threads[1].out = Ok(<<5>>)

\* ---- errors of the per-call operations

PerCallFunctions ==
    {"tokenizers_encode", "tokenizers_decode", "tokenizers_token_to_id",
     "tokenizers_id_to_token"}

OneScalar(replacement) == replacement.tag = "str" /\ Len(replacement.s) = 1
KnownScheme(prepend_scheme) ==
    prepend_scheme.tag = "str" /\ prepend_scheme.s \in {"always", "never", "first"}
UnknownScheme(prepend_scheme) ==
    prepend_scheme.tag = "str" /\ prepend_scheme.s \notin {"always", "never", "first"}

\* C19: a call of tokenizers_metaspace_new with a status pointer sets status 0
\* and returns a live metaspace exactly when the replacement is valid UTF-8 of
\* one character and the scheme is "always", "never" or "first"; a replacement
\* that is null, not UTF-8, empty or longer gives status -2 and null whatever
\* the scheme is; with a good replacement a scheme that is another string gives
\* status -3 and null.
C19_MetaspaceArguments ==
    (call.fn = "tokenizers_metaspace_new" /\ call.wrote) =>
        LET replacement == call.input.replacement
            prepend_scheme == call.input.prepend_scheme
        IN /\ (call.status = 0 /\ call.ret # NullPtr)
                 <=> (OneScalar(replacement) /\ KnownScheme(prepend_scheme))
           /\ call.status = 0 => call.ret \in LiveOf("metaspace")
           /\ call.status # 0 => call.ret = NullPtr
           /\ ~OneScalar(replacement) => call.status = -2
           /\ (OneScalar(replacement) /\ UnknownScheme(prepend_scheme)) => call.status = -3

\* a two-character replacement with a scheme that is not known: status -2
C19_Witness ==
    /\ call.fn = "tokenizers_metaspace_new"
    /\ call.input.replacement = Str(<<"_", "_">>)
    /\ call.input.prepend_scheme = Str("sometimes")
    /\ call.wrote
    /\ call.status = -2
    /\ call.ret = NullPtr

BehaviorFunctions ==
    {"tokenizers_split_new", "tokenizers_split_new_regex", "tokenizers_punctuation_new"}
Behaviors == {"removed", "isolated", "merged_with_previous", "merged_with_next", "contiguous"}

\* C20: a call of tokenizers_split_new, tokenizers_split_new_regex or
\* tokenizers_punctuation_new with a status pointer (and, for the two split
\* constructors, a pattern that is valid UTF-8) succeeds only with a behavior
\* that is one of "removed", "isolated", "merged_with_previous",
\* "merged_with_next", "contiguous", and the object has that behavior; a
\* behavior that is any other string gives status -3 and null; each of the five
\* is accepted by tokenizers_split_new and tokenizers_punctuation_new.
C20_BehaviorWords ==
    (/\ call.fn \in BehaviorFunctions
     /\ call.wrote
     /\ call.fn # "tokenizers_punctuation_new" => call.input.pattern.tag = "str"
     /\ call.input.behavior.tag = "str")
        => /\ call.status = 0 =>
                /\ call.input.behavior.s \in Behaviors
                /\ call.ret \in Live
                /\ heap[call.ret].val.behavior = call.input.behavior.s
           /\ call.input.behavior.s \notin Behaviors => call.status = -3 /\ call.ret = NullPtr
           /\ (call.input.behavior.s \in Behaviors /\ call.fn # "tokenizers_split_new_regex")
                => call.status = 0 /\ call.ret # NullPtr

\* "Isolated" with a capital letter is refused by tokenizers_split_new
C20_Witness ==
    /\ call.fn = "tokenizers_split_new"
    /\ call.input.pattern = Str(<<",">>)
    /\ call.input.behavior = Str("Isolated")
    /\ call.wrote
    /\ call.status = -3
    /\ call.ret = NullPtr

====
